---- MODULE Spec2Model ----
(***************************************************************************)
(* darkside-mcp: the access guard (validatePath), the file operations      *)
(* (listDirectory, readFile, getFileInfo, createDirectory, and writeFile   *)
(* and deleteFile with their backup step), the process runner              *)
(* (runPythonScript, runPowerShell, runPowerShellScript) with the          *)
(* environment and working directory of the child, the safety check of     *)
(* inline code, the functions that stage a temporary file (runPythonCode,  *)
(* checkPythonSyntax), searchFiles and the request handler of              *)
(* server/index.js.                                                        *)
(*                                                                         *)
(* Strings are sequences of one-character strings, so that startsWith,     *)
(* charAt, split and path.normalize work on them as they do in the code.   *)
(***************************************************************************)
EXTENDS Integers, Sequences, FiniteSets, TLC

VARIABLES
    platform,       \* "posix" or "win32": which path module node loaded
    envDrives,      \* process.env.ALLOWED_DRIVES (Unset or a string)
    envPaths,       \* process.env.ALLOWED_PATHS  (Unset or a string)
    vpArg,          \* the argument of the validatePath call under study
    vpRet,          \* what that call returned or threw
    fs,             \* the file system: path |-> content, for the files that exist
    clock,          \* what Date.now() returns
    freq,           \* the write_file / delete_file requests, by request slot
    exec,           \* the executions (run functions), by request slot
    call            \* the tool calls of the request handler, by request slot

pathVars == <<vpArg, vpRet>>

policyVars == <<platform, envDrives, envPaths>>

fileVars == <<fs, clock, freq>>

vars == <<platform, envDrives, envPaths, vpArg, vpRet, fs, clock, freq, exec, call>>

(***************************************************************************)
(* Strings                                                                 *)
(***************************************************************************)
\* an environment variable that is not set (no string holds this character)
Unset == <<"<unset>">>

\* String.prototype.startsWith
StartsWith(s, p) == Len(s) >= Len(p) /\ SubSeq(s, 1, Len(p)) = p

\* String.prototype.charAt (0-based; "" past the end)
CharAt(s, i) == IF i < Len(s) THEN <<s[i + 1]>> ELSE <<>>

LowerToUpper ==
    [c \in {"a", "c", "d", "f", "h", "m"} |->
        CASE c = "a" -> "A" [] c = "c" -> "C" [] c = "d" -> "D"
          [] c = "f" -> "F" [] c = "h" -> "H" [] c = "m" -> "M"]

\* String.prototype.toUpperCase
ToUpperCase(s) ==
    [i \in DOMAIN s |-> IF s[i] \in DOMAIN LowerToUpper THEN LowerToUpper[s[i]] ELSE s[i]]

\* Array.prototype.includes
Includes(list, x) == \E i \in DOMAIN list : list[i] = x

RECURSIVE SplitFrom(_, _, _, _)
SplitFrom(s, seps, i, cur) ==
    IF i > Len(s) THEN <<cur>>
    ELSE IF s[i] \in seps THEN <<cur>> \o SplitFrom(s, seps, i + 1, <<>>)
    ELSE SplitFrom(s, seps, i + 1, Append(cur, s[i]))

\* String.prototype.split on single-character separators: "" splits to [""]
Split(s, seps) == SplitFrom(s, seps, 1, <<>>)

\* Array.prototype.filter(p => p) on strings: drops the empty ones
FilterNonEmpty(list) == SelectSeq(list, LAMBDA p : p # <<>>)

RECURSIVE Join(_, _)
\* Array.prototype.join
Join(list, sep) ==
    IF list = <<>> THEN <<>>
    ELSE IF Len(list) = 1 THEN list[1]
    ELSE list[1] \o sep \o Join(Tail(list), sep)

(***************************************************************************)
(* path.normalize, as node's lib/path.js computes it                       *)
(***************************************************************************)
RECURSIVE ResolveDots(_, _, _)
\* normalizeString: drops "" and ".", resolves ".." against the segment
\* before it, keeps a leading ".." only when allowAboveRoot
ResolveDots(segs, allowAboveRoot, res) ==
    IF segs = <<>> THEN res
    ELSE LET s == Head(segs) rest == Tail(segs) IN
         IF s = <<>> \/ s = <<".">> THEN ResolveDots(rest, allowAboveRoot, res)
         ELSE IF s = <<".", ".">> THEN
              IF res # <<>> /\ res[Len(res)] # <<".", ".">>
                  THEN ResolveDots(rest, allowAboveRoot, SubSeq(res, 1, Len(res) - 1))
              ELSE IF allowAboveRoot
                  THEN ResolveDots(rest, allowAboveRoot, Append(res, s))
              ELSE ResolveDots(rest, allowAboveRoot, res)
         ELSE ResolveDots(rest, allowAboveRoot, Append(res, s))

normalizeString(p, allowAboveRoot, sep, seps) ==
    Join(ResolveDots(Split(p, seps), allowAboveRoot, <<>>), sep)

\* path.posix.normalize
posixNormalize(p) ==
    IF p = <<>> THEN <<".">>
    ELSE LET isAbsolute == p[1] = "/"
             trailingSeparator == p[Len(p)] = "/"
             body == normalizeString(p, ~isAbsolute, <<"/">>, {"/"})
         IN  IF body = <<>>
             THEN IF isAbsolute THEN <<"/">>
                  ELSE IF trailingSeparator THEN <<".", "/">> ELSE <<".">>
             ELSE (IF isAbsolute THEN <<"/">> ELSE <<>>) \o body
                  \o (IF trailingSeparator THEN <<"/">> ELSE <<>>)

WinSeps == {"/", "\\"}

DriveLetters == {"C", "D", "F", "c", "d", "f"}

\* path.win32.normalize, for every path but a UNC one (one that starts with
\* two separators), which no request of this model names
win32Normalize(p) ==
    IF p = <<>> THEN <<".">>
    ELSE IF Len(p) = 1 THEN (IF p[1] \in WinSeps THEN <<"\\">> ELSE p)
    ELSE LET hasDevice == p[1] \in DriveLetters /\ p[2] = ":"
             device == IF hasDevice THEN SubSeq(p, 1, 2) ELSE <<>>
             isAbsolute == IF hasDevice THEN Len(p) > 2 /\ p[3] \in WinSeps
                           ELSE p[1] \in WinSeps
             rootEnd == IF hasDevice THEN (IF isAbsolute THEN 3 ELSE 2)
                        ELSE (IF isAbsolute THEN 1 ELSE 0)
             tail0 == IF rootEnd < Len(p)
                      THEN normalizeString(SubSeq(p, rootEnd + 1, Len(p)),
                                           ~isAbsolute, <<"\\">>, WinSeps)
                      ELSE <<>>
             tail1 == IF tail0 = <<>> /\ ~isAbsolute THEN <<".">> ELSE tail0
             tail == IF tail1 # <<>> /\ p[Len(p)] \in WinSeps
                     THEN tail1 \o <<"\\">> ELSE tail1
         IN  device \o (IF isAbsolute THEN <<"\\">> ELSE <<>>) \o tail

\* path.normalize of the platform node runs on
normalize(p) == IF platform = "win32" THEN win32Normalize(p) ELSE posixNormalize(p)

(***************************************************************************)
(* The access policy, read once from the environment                       *)
(***************************************************************************)
\* (process.env.X || dflt)
OrDefault(v, dflt) == IF v = Unset \/ v = <<>> THEN dflt ELSE v

ALLOWED_DRIVES == Split(OrDefault(envDrives, <<"C", ",", "F">>), {","})

ALLOWED_PATHS == FilterNonEmpty(Split(OrDefault(envPaths, <<>>), {","}))

S_mnt == <<"/", "m", "n", "t", "/">>
S_home == <<"/", "h", "o", "m", "e", "/">>
S_tmp == <<"/", "t", "m", "p", "/">>

AccessDenied == "Access denied"

\* validatePath with the policy as arguments: [ok |-> TRUE, path |-> normalized]
\* when it returns, [ok |-> FALSE, ...] when it throws
\* validatePath after its first line
checkNormalized(drives, paths, normalized) ==
    LET driveLetter == ToUpperCase(CharAt(normalized, 5))
        drive == ToUpperCase(CharAt(normalized, 0))
    IN  IF StartsWith(normalized, S_mnt) /\ Includes(drives, driveLetter)
            THEN [ok |-> TRUE, path |-> normalized, error |-> ""]
        ELSE IF StartsWith(normalized, S_home) \/ StartsWith(normalized, S_tmp)
            THEN [ok |-> TRUE, path |-> normalized, error |-> ""]
        ELSE IF \E i \in DOMAIN paths : StartsWith(normalized, paths[i])
            THEN [ok |-> TRUE, path |-> normalized, error |-> ""]
        ELSE IF Includes(drives, drive)
            THEN [ok |-> TRUE, path |-> normalized, error |-> ""]
        ELSE [ok |-> FALSE, path |-> normalized, error |-> AccessDenied]

validatePathWith(drives, paths, filePath) ==
    checkNormalized(drives, paths, normalize(filePath))

validatePath(filePath) == validatePathWith(ALLOWED_DRIVES, ALLOWED_PATHS, filePath)

(***************************************************************************)
(* The requests of the model: paths built from a root and a few segments   *)
(***************************************************************************)
\* the largest number of segments after the root of a requested path
MaxSegs == 2

Roots ==
    { <<>>,
      <<"/">>,
      <<"C", ":", "/">>,
      <<"c", ":", "\\">>,
      <<"D", ":", "/">>,
      <<"F", ":">>,
      <<"/", "m", "n", "t", "/">>,
      <<"/", "m", "n", "t", "/", "c", "/">>,
      <<"/", "m", "n", "t", "/", "d", "/">>,
      <<"/", "m", "n", "t", "/", "c", "a", "t", "/">>,
      <<"/", "t", "m", "p", "/">>,
      <<"/", "h", "o", "m", "e", "/">>,
      <<"/", "t", "m", "p", "a", "/">>,
      <<"/", "e", "t", "c", "/">> }

Segments ==
    { <<"a">>, <<".", ".">>, <<".">>, <<"c", "a", "t">>, <<"d", "o", "c">>,
      <<"t", "m", "p">> }

SegSeqs == UNION { [1..n -> Segments] : n \in 0..MaxSegs }

RawPaths == { r \o Join(ss, <<"/">>) : r \in Roots, ss \in SegSeqs }

EnvDriveValues ==
    { Unset, <<>>, <<"C", ",", "F">>, <<"D">>, <<"C">> }

EnvPathValues ==
    { Unset,
      <<"C", ":", "/", "a">>,
      <<"C", ":", "\\", "a">>,
      <<"/", "e", "t", "c", "/", "a">>,
      <<"C", ":", "/", "a", ",", "/", "e", "t", "c", "/", "a">> }

NoRet == [ok |-> FALSE, path |-> <<>>, error |-> "pending"]

\* one call validatePath(vpArg)
Validate ==
    /\ vpRet = NoRet
    /\ vpRet' = validatePath(vpArg)
    /\ UNCHANGED <<vpArg, policyVars, fileVars, exec, call>>

(***************************************************************************)
(* File operations: writeFile and deleteFile, one action per await         *)
(***************************************************************************)
\* the request slots for file operations; each serves one request
NumFileReqs == 2

FReqs == 1..NumFileReqs

\* the last reading of the clock
MaxClock == 1

DigitChar == [d \in 0..9 |->
    CASE d = 0 -> "0" [] d = 1 -> "1" [] d = 2 -> "2" [] d = 3 -> "3" [] d = 4 -> "4"
      [] d = 5 -> "5" [] d = 6 -> "6" [] d = 7 -> "7" [] d = 8 -> "8" [] d = 9 -> "9"]

RECURSIVE NumToString(_)
\* `${n}` of a non-negative integer
NumToString(n) ==
    IF n < 10 THEN <<DigitChar[n]>> ELSE NumToString(n \div 10) \o <<DigitChar[n % 10]>>

S_backup == <<".", "b", "a", "c", "k", "u", "p", "_">>
S_deleted == <<".", "d", "e", "l", "e", "t", "e", "d", "_">>

\* `${validated}.backup_${Date.now()}`
writeBackupPath(validated, now) == validated \o S_backup \o NumToString(now)

\* `${validated}.deleted_${Date.now()}`
deleteBackupPath(validated, now) == validated \o S_deleted \o NumToString(now)

\* fsSync.existsSync
existsSync(p) == p \in DOMAIN fs

\* the file system after a file is created or overwritten
FsPut(f, p, c) == [q \in DOMAIN f \cup {p} |-> IF q = p THEN c ELSE f[q]]

\* the file system after a file is removed
FsRemove(f, p) == [q \in DOMAIN f \ {p} |-> f[q]]

NoPath == <<"<null>">>
NoFile == <<"<no file>">>
NoResult == [kind |-> "none"]

FileTargets ==
    { <<"C", ":", "/", "a">>,
      <<"C", ":", "/", "d", "/", ".", ".", "/", "a">>,
      <<"/", "e", "t", "c", "/", "a">> }

\* the content request slot r writes: r characters, so that the writers and
\* their sizes differ
RECURSIVE ContentOf(_)
ContentOf(r) == IF r = 0 THEN <<>> ELSE Append(ContentOf(r - 1), "x")

InitialContents == { <<"o", "l", "d">> }

IdleReq ==
    [op |-> "none", pc |-> "idle", content |-> <<>>,
     createBackup |-> FALSE, validated |-> <<>>, backupPath |-> NoPath,
     pre |-> NoFile, copied |-> FALSE, overlapped |-> FALSE,
     pattern |-> <<>>, found |-> {}, unreadable |-> {},
     result |-> NoResult, error |-> ""]

InFlight(q) == freq[q].pc \notin {"idle", "done", "failed"}

\* slot r takes the next request: the slots are taken in order
NextSlot(r) == freq[r].pc = "idle" /\ \A q \in FReqs : q < r => freq[q].pc # "idle"

\* the requests in flight on path p, other than r
Rivals(r, p) == { q \in FReqs \ {r} : InFlight(q) /\ freq[q].validated = p }

\* the requests with r's start recorded: r itself, and r's rivals marked as
\* overlapped by it
Started(r, rec) ==
    [q \in FReqs |->
        IF q = r THEN [rec EXCEPT !.overlapped = Rivals(r, rec.validated) # {}]
        ELSE IF q \in Rivals(r, rec.validated) THEN [freq[q] EXCEPT !.overlapped = TRUE]
        ELSE freq[q]]

writeFileSkipsCopy(backup) == "write"

\* what writeFile awaits first: the backup copy when there is one to make
writeFileFirstAwait(backup) == IF backup THEN "copy" ELSE "write"

\* writeFile up to its first await: validatePath, the existence test, the
\* backup path from the clock
writeFile(r, filePath, content, createBackup) ==
    /\ NextSlot(r)
    /\ LET v == validatePath(filePath)
           base == [IdleReq EXCEPT !.op = "write", !.content = content,
                                   !.createBackup = createBackup]
       IN  IF ~v.ok
           THEN freq' = [freq EXCEPT ![r] = [base EXCEPT !.pc = "failed", !.error = v.error]]
           ELSE LET backup == createBackup /\ existsSync(v.path)
                    rec == [base EXCEPT
                              !.validated = v.path,
                              !.pre = IF existsSync(v.path) THEN fs[v.path] ELSE NoFile,
                              !.backupPath = IF backup THEN writeBackupPath(v.path, clock)
                                             ELSE NoPath,
                              !.pc = writeFileFirstAwait(backup)]
                IN  freq' = Started(r, rec)
    /\ UNCHANGED <<fs, clock, policyVars, pathVars, exec, call>>

copyFileNothing(r) ==
    /\ freq[r].pc = "copy"
    /\ freq' = [freq EXCEPT ![r].copied = TRUE,
                            ![r].pc = IF freq[r].op = "write" THEN "write" ELSE "unlink"]
    /\ UNCHANGED <<fs, clock, policyVars, pathVars, exec, call>>

\* await fs.copyFile(validated, backupPath), of writeFile and of deleteFile
copyFile(r) ==
    /\ freq[r].pc = "copy"
    /\ IF existsSync(freq[r].validated)
       THEN /\ fs' = FsPut(fs, freq[r].backupPath, fs[freq[r].validated])
            /\ freq' = [freq EXCEPT ![r].copied = TRUE,
                                    ![r].pc = IF freq[r].op = "write" THEN "write" ELSE "unlink"]
       ELSE /\ fs' = fs
            /\ freq' = [freq EXCEPT ![r].pc = "failed", ![r].error = "ENOENT copyfile"]
    /\ UNCHANGED <<clock, policyVars, pathVars, exec, call>>

copyFileErrorIgnored(r) ==
    /\ freq[r].pc = "copy"
    /\ freq' = [freq EXCEPT ![r].pc = IF freq[r].op = "write" THEN "write" ELSE "unlink"]
    /\ UNCHANGED <<fs, clock, policyVars, pathVars, exec, call>>

\* fs.copyFile fails on an I/O error and leaves no destination file
copyFileError(r) ==
    /\ freq[r].pc = "copy"
    /\ freq' = [freq EXCEPT ![r].pc = "failed", ![r].error = "EIO copyfile"]
    /\ UNCHANGED <<fs, clock, policyVars, pathVars, exec, call>>

\* await fs.writeFile(validated, content, 'utf8')
writeFileWrite(r) ==
    /\ freq[r].pc = "write"
    /\ fs' = FsPut(fs, freq[r].validated, freq[r].content)
    /\ freq' = [freq EXCEPT ![r].pc = "stat"]
    /\ UNCHANGED <<clock, policyVars, pathVars, exec, call>>

\* the value of backup_created in writeFile's result
backupCreated(createBackup, validated) == createBackup /\ existsSync(validated)

\* await fs.stat(validated), then the result is built and returned
writeFileReturn(r) ==
    /\ freq[r].pc = "stat"
    /\ IF existsSync(freq[r].validated)
       THEN freq' = [freq EXCEPT
                ![r].pc = "done",
                ![r].result = [kind |-> "write", success |-> TRUE,
                               path |-> freq[r].validated,
                               size |-> Len(fs[freq[r].validated]),
                               backup_created |->
                                   backupCreated(freq[r].createBackup, freq[r].validated)]]
       ELSE freq' = [freq EXCEPT ![r].pc = "failed", ![r].error = "ENOENT stat"]
    /\ UNCHANGED <<fs, clock, policyVars, pathVars, exec, call>>

\* whether deleteFile runs its backup step
deleteBacksUp(createBackup, validated) == createBackup

\* deleteFile up to its first await
deleteFile(r, filePath, createBackup) ==
    /\ NextSlot(r)
    /\ LET v == validatePath(filePath)
           base == [IdleReq EXCEPT !.op = "delete", !.createBackup = createBackup]
       IN  IF ~v.ok
           THEN freq' = [freq EXCEPT ![r] = [base EXCEPT !.pc = "failed", !.error = v.error]]
           ELSE LET backup == deleteBacksUp(createBackup, v.path)
                    rec == [base EXCEPT
                              !.validated = v.path,
                              !.pre = IF existsSync(v.path) THEN fs[v.path] ELSE NoFile,
                              !.backupPath = IF backup THEN deleteBackupPath(v.path, clock)
                                             ELSE NoPath,
                              !.pc = IF backup THEN "copy" ELSE "unlink"]
                IN  freq' = Started(r, rec)
    /\ UNCHANGED <<fs, clock, policyVars, pathVars, exec, call>>

\* await fs.unlink(validated)
deleteFileUnlink(r) ==
    /\ freq[r].pc = "unlink"
    /\ IF existsSync(freq[r].validated)
       THEN /\ fs' = FsRemove(fs, freq[r].validated)
            /\ freq' = [freq EXCEPT ![r].pc = "unlinked"]
       ELSE /\ fs' = fs
            /\ freq' = [freq EXCEPT ![r].pc = "failed", ![r].error = "ENOENT unlink"]
    /\ UNCHANGED <<clock, policyVars, pathVars, exec, call>>

\* deleteFile's result, once the unlink has been awaited
deleteFileReturn(r) ==
    /\ freq[r].pc = "unlinked"
    /\ freq' = [freq EXCEPT
         ![r].pc = "done",
         ![r].result = [kind |-> "delete", success |-> TRUE,
                        path |-> freq[r].validated,
                        backup_path |-> freq[r].backupPath]]
    /\ UNCHANGED <<fs, clock, policyVars, pathVars, exec, call>>

\* time passes
Tick ==
    /\ clock < MaxClock
    /\ clock' = clock + 1
    /\ UNCHANGED <<fs, freq, policyVars, pathVars, exec, call>>

(***************************************************************************)
(* The process runner: runPythonScript, runPowerShell, runPowerShellScript  *)
(* and the events of the child they spawn                                  *)
(***************************************************************************)
\* the executions of the model: one at a time.  An execution shares nothing
\* with another: stdout, stderr, killed, timeoutId and proc are locals of
\* the call that spawned the child.
XReqs == {1}

\* the chunks a child writes at most, over both of its output streams
MaxChunks == 1

PYTHON_MAX_TIMEOUT == 300000
POWERSHELL_MAX_TIMEOUT == 600000
MIN_TIMEOUT == 1000

\* Math.min(Math.max(timeout, 1000), max)
Min(a, b) == IF a < b THEN a ELSE b
Max(a, b) == IF a > b THEN a ELSE b
safeTimeoutOf(timeout, max) == Min(Max(timeout, MIN_TIMEOUT), max)

maxTimeoutOf(kind) ==
    IF kind = "runPythonScript" THEN PYTHON_MAX_TIMEOUT ELSE POWERSHELL_MAX_TIMEOUT

\* String.prototype.trim, for strings whose white space is blanks
RECURSIVE TrimStart(_)
TrimStart(s) == IF s # <<>> /\ Head(s) = " " THEN TrimStart(Tail(s)) ELSE s
RECURSIVE TrimEnd(_)
TrimEnd(s) == IF s # <<>> /\ s[Len(s)] = " " THEN TrimEnd(SubSeq(s, 1, Len(s) - 1)) ELSE s
TrimNothing(s) == s

Trim(s) == TrimEnd(TrimStart(s))

\* the index of the last separator of p, 0 when it has none
LastSep(p, seps) ==
    IF \E i \in DOMAIN p : p[i] \in seps
    THEN CHOOSE i \in DOMAIN p : p[i] \in seps /\ \A j \in DOMAIN p : j > i => p[j] \notin seps
    ELSE 0

\* path.dirname of a normalized path that names a file (no trailing separator)
dirname(p) ==
    LET seps == IF platform = "win32" THEN WinSeps ELSE {"/"}
        i == LastSep(p, seps)
        rootLen == IF platform = "win32" /\ Len(p) >= 3 /\ p[1] \in DriveLetters /\ p[2] = ":"
                   THEN 3 ELSE 1
    IN  IF i = 0 THEN <<".">>
        ELSE IF i <= rootLen THEN SubSeq(p, 1, i)
        ELSE SubSeq(p, 1, i - 1)

\* os.homedir()
homedir ==
    IF platform = "win32" THEN <<"C", ":", "\\", "U", "s", "e", "r", "s", "\\", "u">>
    ELSE <<"/", "h", "o", "m", "e", "/", "u">>

\* a slot of the request handler that has taken no call
\* the arguments of a tool call; <<>> is one left out
NoArgs ==
    [code |-> <<>>, script_path |-> <<>>, command |-> <<>>, timeout_ms |-> <<>>, cwd |-> <<>>,
     directory |-> <<>>, pattern |-> <<>>, env |-> <<>>]

IdleCall ==
    [tool |-> "none", args |-> NoArgs, pc |-> "idle", code |-> <<>>, cwd |-> NoPath,
     timeout |-> 0, tempFile |-> NoPath, staged |-> FALSE, payload |-> NoResult]

NullCode == <<>>
NoError == [msg |-> "", ms |-> 0]

IdleExec ==
    [kind |-> "none", outcome |-> "idle", value |-> NoResult, threw |-> "",
     validated |-> NoPath, workDir |-> NoPath, timeout |-> 0, safeTimeout |-> 0,
     args |-> <<>>, stdio |-> <<>>, spawnFailed |-> FALSE,
     startTime |-> 0, child |-> "none", code |-> NullCode, termSent |-> FALSE,
     killed |-> FALSE, timeoutId |-> "none", spawnTimer |-> "none",
     stdout |-> <<>>, stderr |-> <<>>, chunks |-> 0,
     exitedInTime |-> FALSE, ranOut |-> FALSE, script |-> NoFile, env |-> <<>>]

\* process.env, the environment of the server: a few of its variables
processEnv == [PATH |-> "ambient", PYTHONUNBUFFERED |-> "0"]

\* { ...a, ...b }: the pairs of a, then those of b over them
Spread(a, b) == [k \in DOMAIN a \cup DOMAIN b |-> IF k \in DOMAIN b THEN b[k] ELSE a[k]]

\* procEnv of runPythonScript:
\* { ...process.env, PYTHONUNBUFFERED: '1', PYTHONDONTWRITEBYTECODE: '1', ...env }
procEnv(env) ==
    Spread(Spread(processEnv, [PYTHONUNBUFFERED |-> "1", PYTHONDONTWRITEBYTECODE |-> "1"]),
           env)

\* an async function throws before its promise exists: the request fails
Throws(kind, msg) == [IdleExec EXCEPT !.kind = kind, !.outcome = "threw", !.threw = msg]

SpawnedInherit(kind, args, validated, workDir, timeout, spawnOk) ==
    [IdleExec EXCEPT
        !.args = args, !.stdio = <<"inherit", "pipe", "pipe">>,
        !.kind = kind, !.outcome = "pending", !.validated = validated,
        !.workDir = workDir, !.timeout = timeout,
        !.safeTimeout = safeTimeoutOf(timeout, maxTimeoutOf(kind)),
        !.spawnFailed = ~spawnOk, !.startTime = clock,
        !.child = IF spawnOk THEN "alive" ELSE "spawnerr",
        !.timeoutId = "armed",
        !.script = IF existsSync(validated) THEN fs[validated] ELSE NoFile,
        !.env = IF kind = "runPythonScript" THEN procEnv(<<>>) ELSE processEnv,
        !.spawnTimer = IF kind = "runPythonScript" /\ spawnOk THEN "armed" ELSE "none"]

\* spawn(..., {cwd, env, stdio: ['ignore', 'pipe', 'pipe'], ...}), then the
\* timer is armed and the handlers are attached; spawnOk says whether the
\* executable could be launched.  The interpreter opens the script it is
\* given as it starts: script is the text it runs.
Spawned(kind, args, validated, workDir, timeout, spawnOk) ==
    [IdleExec EXCEPT
        !.args = args, !.stdio = <<"ignore", "pipe", "pipe">>,
        !.kind = kind, !.outcome = "pending", !.validated = validated,
        !.workDir = workDir, !.timeout = timeout,
        !.safeTimeout = safeTimeoutOf(timeout, maxTimeoutOf(kind)),
        !.spawnFailed = ~spawnOk,
        !.startTime = clock,
        !.child = IF spawnOk THEN "alive" ELSE "spawnerr",
        !.timeoutId = "armed",
        !.script = IF existsSync(validated) THEN fs[validated] ELSE NoFile,
        !.env = IF kind = "runPythonScript" THEN procEnv(<<>>) ELSE processEnv,
        !.spawnTimer = IF kind = "runPythonScript" /\ spawnOk THEN "armed" ELSE "none"]

\* the argument list of powershell.exe
psArgs(flag, x) ==
    <<"-NoProfile", "-NonInteractive", "-ExecutionPolicy", "Bypass", flag, x>>

argsOfQuoted(kind, x) == psArgs("-Command", <<"\"">> \o x \o <<"\"">>)

\* the argument list of the spawn of a run function
argsOf(kind, x) ==
    IF kind = "runPythonScript" THEN <<x>>
    ELSE IF kind = "runPowerShellScript" THEN psArgs("-File", x)
    ELSE psArgs("-Command", x)

\* slot r takes a request
NextExecSlot(r) == exec[r].outcome = "idle"

\* the part shared by runPythonScript and runPowerShellScript, up to spawn
\* from the working directory on: w is what validatePath(cwd) gave, or the
\* default directory
launchIn(kind, x, validated, w, timeout, spawnOk) ==
    IF ~w.ok THEN Throws(kind, w.error)
    ELSE Spawned(kind, argsOf(kind, x), validated, w.path, timeout, spawnOk)

launchScriptUnchecked(kind, v, cwd, timeout, spawnOk) ==
    IF ~v.ok THEN Throws(kind, v.error)
    ELSE launchIn(kind, v.path, v.path,
                  IF cwd # NoPath THEN validatePath(cwd)
                  ELSE [ok |-> TRUE, path |-> dirname(v.path), error |-> ""],
                  timeout, spawnOk)

\* from the existence check on: v is what validatePath(scriptPath) gave
launchScript(kind, v, cwd, timeout, spawnOk) ==
    IF ~v.ok THEN Throws(kind, v.error)
    ELSE IF ~existsSync(v.path) THEN Throws(kind, "Script not found")
    ELSE launchIn(kind, v.path, v.path,
                  IF cwd # NoPath THEN validatePath(cwd)
                  ELSE [ok |-> TRUE, path |-> dirname(v.path), error |-> ""],
                  timeout, spawnOk)

runScript(kind, scriptPath, cwd, timeout, spawnOk) ==
    launchScript(kind, validatePath(scriptPath), cwd, timeout, spawnOk)

runPythonScript(r, scriptPath, cwd, timeout, spawnOk) ==
    /\ NextExecSlot(r)
    /\ exec' = [exec EXCEPT ![r] = runScript("runPythonScript", scriptPath, cwd, timeout, spawnOk)]
    /\ UNCHANGED <<fs, clock, policyVars, pathVars, freq, call>>

runPowerShellScript(r, scriptPath, timeout, cwd, spawnOk) ==
    /\ NextExecSlot(r)
    /\ exec' = [exec EXCEPT ![r] =
                    runScript("runPowerShellScript", scriptPath, cwd, timeout, spawnOk)]
    /\ UNCHANGED <<fs, clock, policyVars, pathVars, freq, call>>

runCommandUnguarded(command, timeout, cwd, spawnOk) ==
    IF command = <<>> \/ Trim(command) = <<>>
        THEN Throws("runPowerShell", "Command cannot be empty")
    ELSE launchIn("runPowerShell", command, NoPath,
                  [ok |-> TRUE, path |-> IF cwd # NoPath THEN cwd ELSE homedir, error |-> ""],
                  timeout, spawnOk)

\* runPowerShell, up to spawn
runCommand(command, timeout, cwd, spawnOk) ==
    IF command = <<>> \/ Trim(command) = <<>>
        THEN Throws("runPowerShell", "Command cannot be empty")
    ELSE launchIn("runPowerShell", command, NoPath,
                  IF cwd # NoPath THEN validatePath(cwd)
                  ELSE [ok |-> TRUE, path |-> homedir, error |-> ""],
                  timeout, spawnOk)

runPowerShell(r, command, timeout, cwd, spawnOk) ==
    /\ NextExecSlot(r)
    /\ exec' = [exec EXCEPT ![r] = runCommand(command, timeout, cwd, spawnOk)]
    /\ UNCHANGED <<fs, clock, policyVars, pathVars, freq, call>>

ResolveAgain(cur, v) == [cur EXCEPT !.outcome = "resolved", !.value = v]

\* resolve(v) of the promise the run function returned: the first call
\* settles it, a later one changes nothing
Resolve(cur, v) ==
    IF cur.outcome = "pending" THEN [cur EXCEPT !.outcome = "resolved", !.value = v]
    ELSE cur

\* clearTimeout(timeoutId)
clearTimeout(t) == IF t = "armed" THEN "cleared" ELSE t

killedText(kind) ==
    IF kind = "runPowerShell" THEN "Command killed after timeout"
    ELSE "Script killed after timeout"

closeResultNoFlag(x, code, duration) ==
    [success |-> code = <<0>>, exit_code |-> code, stdout |-> x.stdout,
     stderr |-> x.stderr, duration_ms |-> duration, error |-> NoError,
     script_path |-> x.validated, working_directory |-> x.workDir]

\* what the 'close' handler resolves with
closeResult(x, code, duration) ==
    IF x.killed
    THEN [success |-> FALSE, exit_code |-> <<-1>>, stdout |-> x.stdout,
          stderr |-> x.stderr, duration_ms |-> duration,
          error |-> [msg |-> killedText(x.kind), ms |-> x.safeTimeout],
          script_path |-> x.validated, working_directory |-> x.workDir]
    ELSE [success |-> code = <<0>>, exit_code |-> code, stdout |-> x.stdout,
          stderr |-> x.stderr, duration_ms |-> duration, error |-> NoError,
          script_path |-> x.validated, working_directory |-> x.workDir]

errorResultAsExit(x, message, duration) ==
    [success |-> FALSE, exit_code |-> <<-2>>, stdout |-> x.stdout,
     stderr |-> x.stderr, duration_ms |-> duration, error |-> NoError,
     script_path |-> x.validated, working_directory |-> x.workDir]

\* what the 'error' handler resolves with
errorResult(x, message, duration) ==
    [success |-> FALSE, exit_code |-> <<-1>>, stdout |-> x.stdout,
     stderr |-> x.stderr, duration_ms |-> duration,
     error |-> [msg |-> message, ms |-> 0],
     script_path |-> x.validated, working_directory |-> x.workDir]

\* the child is a process that has not ended
Alive(x) == x.child \in {"alive", "dying"}

onDataAnyTime(r, stream) ==
    /\ exec[r].child # "none"
    /\ exec[r].chunks < MaxChunks
    /\ exec' = [exec EXCEPT
                  ![r].chunks = @ + 1,
                  ![r].stdout = IF stream = "stdout" THEN Append(@, <<"chunk", exec[r].chunks + 1>>) ELSE @,
                  ![r].stderr = IF stream = "stderr" THEN Append(@, <<"chunk", exec[r].chunks + 1>>) ELSE @]
    /\ UNCHANGED <<fs, clock, policyVars, pathVars, freq, call>>

\* proc.stdout.on('data') and proc.stderr.on('data'): a chunk the child wrote
\* is appended to its buffer; what a child wrote before it ended can arrive
\* until its streams close
onData(r, stream) ==
    /\ exec[r].child \in {"alive", "dying", "exited", "exitedHeld"}
    /\ exec[r].chunks < MaxChunks
    /\ LET chunk == <<"chunk", exec[r].chunks + 1>> IN
       exec' = [exec EXCEPT
                  ![r].chunks = @ + 1,
                  ![r].stdout = IF stream = "stdout" THEN Append(@, chunk) ELSE @,
                  ![r].stderr = IF stream = "stderr" THEN Append(@, chunk) ELSE @]
    /\ UNCHANGED <<fs, clock, policyVars, pathVars, freq, call>>

timeoutHandlerApart(r, obeys) ==
    /\ exec[r].timeoutId = "armed"
    /\ exec[r].child # "spawnerr"
    /\ exec' = [exec EXCEPT ![r] =
                  IF exec[r].spawnTimer = "armed"
                  THEN [@ EXCEPT !.spawnTimer = "fired",
                                 !.ranOut = Alive(exec[r]), !.termSent = Alive(exec[r]),
                                 !.child = IF @ = "alive" /\ obeys THEN "dying" ELSE @]
                  ELSE [@ EXCEPT !.killed = TRUE, !.timeoutId = "fired",
                                 !.ranOut = @ \/ Alive(exec[r]),
                                 !.termSent = @ \/ Alive(exec[r]),
                                 !.child = IF @ = "alive" /\ obeys THEN "dying" ELSE @]]
    /\ UNCHANGED <<fs, clock, policyVars, pathVars, freq, call>>

timeoutHandlerShared(r, obeys) ==
    /\ exec[r].timeoutId = "armed"
    /\ exec[r].child # "spawnerr"
    /\ exec' = [q \in DOMAIN exec |->
                  IF q = r
                  THEN [exec[r] EXCEPT
                          !.killed = TRUE, !.timeoutId = "fired",
                          !.spawnTimer = IF @ = "armed" THEN "fired" ELSE @,
                          !.ranOut = Alive(exec[r]), !.termSent = Alive(exec[r]),
                          !.child = IF @ = "alive" /\ obeys THEN "dying" ELSE @]
                  ELSE [exec[q] EXCEPT !.killed = TRUE]]
    /\ UNCHANGED <<fs, clock, policyVars, pathVars, freq, call>>

\* the setTimeout callback: killed = true; proc.kill('SIGTERM').  A child
\* that has ended gets no signal; one that runs either ends on the signal
\* (obeys) or ignores it.  For runPythonScript the timer of spawn's own
\* timeout option, armed first with the same delay, runs just before this
\* one and sends the same signal.  The 'error' of a failed spawn is emitted
\* on the next tick, before any timer can run.
timeoutHandler(r, obeys) ==
    /\ exec[r].timeoutId = "armed"
    /\ exec[r].child # "spawnerr"
    /\ exec' = [exec EXCEPT
                  ![r].killed = TRUE,
                  ![r].timeoutId = "fired",
                  ![r].spawnTimer = IF @ = "armed" THEN "fired" ELSE @,
                  ![r].ranOut = Alive(exec[r]),
                  ![r].termSent = Alive(exec[r]),
                  ![r].child = IF @ = "alive" /\ obeys THEN "dying" ELSE @]
    /\ UNCHANGED <<fs, clock, policyVars, pathVars, freq, call>>

\* the child ends by itself with an exit code; held says whether a process
\* it started keeps its output pipes open.  spawn's own timer is cleared on
\* 'exit'.
childExits(r, code, held) ==
    /\ exec[r].child = "alive"
    /\ exec' = [exec EXCEPT
                  ![r].child = IF held THEN "exitedHeld" ELSE "exited",
                  ![r].code = <<code>>,
                  ![r].exitedInTime = exec[r].timeoutId = "armed",
                  ![r].spawnTimer = clearTimeout(@)]
    /\ UNCHANGED <<fs, clock, policyVars, pathVars, freq, call>>

\* the child ends on the termination signal: no exit code
childDies(r, held) ==
    /\ exec[r].child = "dying"
    /\ exec' = [exec EXCEPT
                  ![r].child = IF held THEN "exitedHeld" ELSE "exited",
                  ![r].code = NullCode]
    /\ UNCHANGED <<fs, clock, policyVars, pathVars, freq, call>>

\* proc.on('close'): the child has ended and its streams have closed
closeHandler(r) ==
    LET x == [exec[r] EXCEPT !.timeoutId = clearTimeout(@)]
        code == IF exec[r].child = "errored" THEN <<-2>> ELSE exec[r].code
    IN  /\ exec' = [exec EXCEPT ![r] =
                  [Resolve(x, closeResult(x, code, clock - x.startTime))
                      EXCEPT !.child = "closed"]]
        /\ UNCHANGED <<fs, clock, policyVars, pathVars, freq, call>>

\* 'close' of a child whose streams nothing holds open, or of a failed spawn
onClose(r) ==
    /\ exec[r].child \in {"exited", "errored"}
    /\ closeHandler(r)

\* 'close' of a child whose pipes a descendant held: when that one lets go
onCloseLate(r) ==
    /\ exec[r].child = "exitedHeld"
    /\ closeHandler(r)

\* proc.on('error'): the spawn failed
onError(r, message) ==
    /\ exec[r].child = "spawnerr"
    /\ LET x == [exec[r] EXCEPT !.timeoutId = clearTimeout(@)] IN
       exec' = [exec EXCEPT ![r] =
                  [Resolve(x, errorResult(x, message, clock - x.startTime))
                      EXCEPT !.child = "errored"]]
    /\ UNCHANGED <<fs, clock, policyVars, pathVars, freq, call>>

(***************************************************************************)
(* The safety check of inline Python code                                  *)
(***************************************************************************)
\* the characters \w of a regular expression matches
WordChars ==
    { "a", "b", "c", "d", "e", "f", "g", "h", "i", "j", "k", "l", "m", "n", "o", "p",
      "q", "r", "s", "t", "u", "v", "w", "x", "y", "z", "A", "B", "C", "D", "E", "F",
      "G", "H", "I", "J", "K", "L", "M", "N", "O", "P", "Q", "R", "S", "T", "U", "V",
      "W", "X", "Y", "Z", "0", "1", "2", "3", "4", "5", "6", "7", "8", "9", "_" }

\* the characters \s matches
WhiteSpace == { " ", "\t", "\n", "\r" }

\* each pattern is \b, one of its literals, \s*, \( ; the pattern of open is
\* followed by [^)]*['"][wa] (mode)
DANGEROUS_PATTERNS ==
    <<
      [src |-> "/\\bos\\.system\\s*\\(/",
       lits |-> { <<"o", "s", ".", "s", "y", "s", "t", "e", "m">> },
       mode |-> FALSE],
      [src |-> "/\\bsubprocess\\.(call|run|Popen)\\s*\\(/",
       lits |-> { <<"s", "u", "b", "p", "r", "o", "c", "e", "s", "s", ".", "c", "a", "l", "l">>,
                  <<"s", "u", "b", "p", "r", "o", "c", "e", "s", "s", ".", "r", "u", "n">>,
                  <<"s", "u", "b", "p", "r", "o", "c", "e", "s", "s", ".", "P", "o", "p", "e", "n">> },
       mode |-> FALSE],
      [src |-> "/\\beval\\s*\\(/",
       lits |-> { <<"e", "v", "a", "l">> },
       mode |-> FALSE],
      [src |-> "/\\bexec\\s*\\(/",
       lits |-> { <<"e", "x", "e", "c">> },
       mode |-> FALSE],
      [src |-> "/\\b__import__\\s*\\(/",
       lits |-> { <<"_", "_", "i", "m", "p", "o", "r", "t", "_", "_">> },
       mode |-> FALSE],
      [src |-> "/\\bopen\\s*\\([^)]*['\"][wa]/",
       lits |-> { <<"o", "p", "e", "n">> },
       mode |-> TRUE],
      [src |-> "/\\bshutil\\.rmtree\\s*\\(/",
       lits |-> { <<"s", "h", "u", "t", "i", "l", ".", "r", "m", "t", "r", "e", "e">> },
       mode |-> FALSE],
      [src |-> "/\\bos\\.remove\\s*\\(/",
       lits |-> { <<"o", "s", ".", "r", "e", "m", "o", "v", "e">> },
       mode |-> FALSE],
      [src |-> "/\\bos\\.unlink\\s*\\(/",
       lits |-> { <<"o", "s", ".", "u", "n", "l", "i", "n", "k">> },
       mode |-> FALSE],
      [src |-> "/\\bos\\.rmdir\\s*\\(/",
       lits |-> { <<"o", "s", ".", "r", "m", "d", "i", "r">> },
       mode |-> FALSE]
    >>

\* \b before s[i], where s[i] is a word character
WordBoundary(s, i) == i = 1 \/ s[i - 1] \notin WordChars

LitAt(s, i, lit) == i + Len(lit) - 1 <= Len(s) /\ SubSeq(s, i, i + Len(lit) - 1) = lit

\* the index after \s* matched from j on
RECURSIVE SkipSpace(_, _)
SkipSpace(s, j) == IF j <= Len(s) /\ s[j] \in WhiteSpace THEN SkipSpace(s, j + 1) ELSE j

\* [^)]*['"][wa] after the parenthesis at j
WriteMode(s, j) ==
    \E k \in (j + 1)..(Len(s) - 1) :
        /\ s[k] \in {"'", "\""}
        /\ s[k + 1] \in {"w", "a"}
        /\ \A m \in (j + 1)..(k - 1) : s[m] # ")"

\* pattern.test(code)
test(pattern, code) ==
    \E i \in 1..Len(code), lit \in pattern.lits :
        /\ WordBoundary(code, i)
        /\ LitAt(code, i, lit)
        /\ LET j == SkipSpace(code, i + Len(lit)) IN
              /\ j <= Len(code)
              /\ code[j] = "("
              /\ pattern.mode => WriteMode(code, j)

checkPythonCodeSafetyNone(code) == [safe |-> TRUE, reason |-> ""]

checkPythonCodeSafetyLast(code) ==
    IF \E i \in DOMAIN DANGEROUS_PATTERNS : test(DANGEROUS_PATTERNS[i], code)
    THEN LET i == CHOOSE i \in DOMAIN DANGEROUS_PATTERNS :
                    /\ test(DANGEROUS_PATTERNS[i], code)
                    /\ \A j \in DOMAIN DANGEROUS_PATTERNS :
                          j > i => ~test(DANGEROUS_PATTERNS[j], code)
         IN  [safe |-> FALSE, reason |-> DANGEROUS_PATTERNS[i].src]
    ELSE [safe |-> TRUE, reason |-> ""]

checkPythonCodeSafety(code) ==
    IF \E i \in DOMAIN DANGEROUS_PATTERNS : test(DANGEROUS_PATTERNS[i], code)
    THEN LET i == CHOOSE i \in DOMAIN DANGEROUS_PATTERNS :
                    /\ test(DANGEROUS_PATTERNS[i], code)
                    /\ \A j \in 1..(i - 1) : ~test(DANGEROUS_PATTERNS[j], code)
         IN  [safe |-> FALSE, reason |-> DANGEROUS_PATTERNS[i].src]
    ELSE [safe |-> TRUE, reason |-> ""]

(***************************************************************************)
(* The request handler and the functions that stage a temporary file:      *)
(* runPythonCode and checkPythonSyntax                                     *)
(***************************************************************************)
PYTHON_TIMEOUT == 30000
POWERSHELL_TIMEOUT == 60000
SYNTAX_TIMEOUT == 5000

\* os.tmpdir()
tmpdir ==
    IF platform = "win32" THEN <<"C", ":", "\\", "U", "s", "e", "r", "s", "\\", "u", "\\", "A", "p", "p", "D", "a", "t", "a", "\\", "L", "o", "c", "a", "l", "\\", "T", "e", "m", "p">>
    ELSE <<"/", "t", "m", "p">>

\* path.join(dir, name)
join(dir, name) == normalize(dir \o <<IF platform = "win32" THEN "\\" ELSE "/">> \o name)

S_darkside_python == <<"d", "a", "r", "k", "s", "i", "d", "e", "_", "p", "y", "t", "h", "o", "n", "_">>
S_syntax_check == <<"s", "y", "n", "t", "a", "x", "_", "c", "h", "e", "c", "k", "_">>
S_py == <<".", "p", "y">>

\* Math.random().toString(36).slice(2) of the call in slot r: two calls do
\* not draw the same digits
random(r) == <<"r">> \o NumToString(r)

\* `darkside_python_${Date.now()}_${Math.random().toString(36).slice(2)}.py`
pythonTempName(now, rnd) == S_darkside_python \o NumToString(now) \o <<"_">> \o rnd \o S_py

\* `syntax_check_${Date.now()}.py`
syntaxTempName(now) == S_syntax_check \o NumToString(now) \o S_py

S_ast_parse == <<"a", "s", "t", ".", "p", "a", "r", "s", "e", "(", "'", "'", "'">>

\* the driver that parses codeToCheck
checkCode(codeToCheck) == S_ast_parse \o codeToCheck \o <<"'", "'", "'", ")">>

\* ast.parse on the code texts of the model: a text parses when its round
\* brackets pair up
RECURSIVE Depth(_, _)
Depth(code, d) ==
    IF code = <<>> \/ d < 0 THEN d
    ELSE Depth(Tail(code), d + (IF Head(code) = "(" THEN 1 ELSE IF Head(code) = ")" THEN -1 ELSE 0))

ast_parse(code) == Depth(code, 0) = 0

\* what a Python child prints on stdout when it runs the driver: SYNTAX_OK
\* or SYNTAX_ERROR:line:offset:msg of the text the driver holds
driverPrints(script) ==
    IF ~StartsWith(script, S_ast_parse) THEN ""
    ELSE IF ast_parse(SubSeq(script, Len(S_ast_parse) + 1, Len(script) - 4)) THEN "SYNTAX_OK"
    ELSE "SYNTAX_ERROR:"

\* the verdict checkPythonSyntax makes of result.stdout; script is the text
\* the child ran
syntaxVerdict(result, script, scriptPath) ==
    LET stdout == IF result.stdout = <<>> THEN "" ELSE driverPrints(script)
        source == IF scriptPath # NoPath THEN "file" ELSE "code"
    IN  IF stdout = "SYNTAX_OK"
            THEN [valid |-> TRUE, source |-> source, message |-> "Syntax is valid"]
        ELSE IF stdout = "SYNTAX_ERROR:"
            THEN [valid |-> FALSE, source |-> source, message |-> "SYNTAX_ERROR"]
        ELSE [valid |-> FALSE, source |-> source, message |-> "Unknown syntax check error"]

orDefaultLeftOut(timeout_ms, dflt) == IF timeout_ms = <<>> THEN dflt ELSE timeout_ms[1]

\* args.timeout_ms || dflt, with <<>> for an argument left out
orDefault(timeout_ms, dflt) ==
    IF timeout_ms = <<>> \/ timeout_ms[1] = 0 THEN dflt ELSE timeout_ms[1]

\* x || null of a string argument: the empty string and one left out are <<>>
orNull(x) == IF x = <<>> THEN NoPath ELSE x

resultPayload(result) == [isError |-> FALSE, error |-> <<>>, result |-> result]

errorPayloadNone(message) == [isError |-> FALSE, error |-> <<>>, result |-> NoResult]

\* the catch of the handler: { error: error.message, ... }, isError: true
errorPayload(message) == [isError |-> TRUE, error |-> message, result |-> NoResult]

\* slot r takes a call; slots are taken in order
CallSlot(r) ==
    /\ call[r].pc = "idle"
    /\ exec[r].outcome = "idle"
    /\ \A q \in DOMAIN call : q < r => call[q].pc # "idle"

\* a call whose function threw, or returned without awaiting anything
Answered(c, payload) == [c EXCEPT !.pc = "done", !.payload = payload]

\* the env argument of runPythonScript reaches spawn's options
withEnv(x, env) == IF x.outcome = "threw" THEN x ELSE [x EXCEPT !.env = procEnv(env)]

\* case "run_python_code": runPythonCode up to its first await, fs.writeFile
run_python_code(r, code, timeout_ms, cwd, env) ==
    /\ CallSlot(r)
    /\ LET safetyCheck == checkPythonCodeSafety(code)
           tempDir == tmpdir
           c == [IdleCall EXCEPT
                    !.tool = "run_python_code", !.code = code,
                    !.args = [NoArgs EXCEPT !.code = code, !.timeout_ms = timeout_ms, !.cwd = cwd,
                                            !.env = env],
                    !.timeout = orDefault(timeout_ms, PYTHON_TIMEOUT),
                    !.cwd = IF orNull(cwd) # NoPath THEN cwd ELSE tempDir]
       IN  call' = [call EXCEPT ![r] =
                IF code = <<>> \/ Trim(code) = <<>>
                    THEN Answered(c, errorPayload(<<"Code cannot be empty">>))
                ELSE IF ~safetyCheck.safe
                    THEN Answered(c, errorPayload(<<"Security check failed", safetyCheck.reason>>))
                ELSE [c EXCEPT !.pc = "write",
                               !.tempFile = join(tempDir, pythonTempName(clock, random(r)))]]
    /\ UNCHANGED <<fs, clock, policyVars, pathVars, freq, exec>>

\* case "check_python_syntax": checkPythonSyntax up to fs.writeFile.  The
\* script is read as the call is taken.
check_python_syntax(r, code, script_path) ==
    /\ CallSlot(r)
    /\ LET scriptPath == orNull(script_path)
           v == validatePath(script_path)
           tempDir == tmpdir
           c == [IdleCall EXCEPT
                    !.tool = "check_python_syntax", !.timeout = SYNTAX_TIMEOUT,
                    !.args = [NoArgs EXCEPT !.code = code, !.script_path = script_path],
                    !.cwd = tempDir]
           staging(codeToCheck) ==
               [c EXCEPT !.pc = "write", !.code = checkCode(codeToCheck),
                         !.tempFile = join(tempDir, syntaxTempName(clock))]
       IN  call' = [call EXCEPT ![r] =
                IF code = <<>> /\ scriptPath = NoPath
                    THEN Answered(c, errorPayload(<<"Either code or script_path must be provided">>))
                ELSE IF code # <<>> /\ scriptPath # NoPath
                    THEN Answered(c, errorPayload(<<"Provide either code or script_path, not both">>))
                ELSE IF scriptPath = NoPath THEN staging(code)
                ELSE IF ~v.ok THEN Answered(c, errorPayload(<<v.error>>))
                ELSE IF ~existsSync(v.path)
                    THEN Answered(c, resultPayload([valid |-> FALSE, source |-> "file",
                                                    message |-> "Script not found"]))
                ELSE staging(fs[v.path])]
    /\ UNCHANGED <<fs, clock, policyVars, pathVars, freq, exec>>

\* await fs.writeFile(tempFile, ...) is over: the file is there, unless the
\* write failed
tempWritten(r, ok) ==
    /\ call[r].pc = "write"
    /\ fs' = IF ok THEN FsPut(fs, call[r].tempFile, call[r].code) ELSE fs
    /\ call' = [call EXCEPT
                  ![r].pc = IF ok THEN "run" ELSE "unlink",
                  ![r].staged = ok,
                  ![r].payload = IF ok THEN @ ELSE errorPayload(<<"EACCES: permission denied, open">>)]
    /\ UNCHANGED <<clock, policyVars, pathVars, freq, exec>>

\* the run function threw: on to the finally block; else its promise is awaited
Thrown(c, x) ==
    IF x.outcome = "threw" THEN [c EXCEPT !.pc = "unlink", !.payload = errorPayload(<<x.threw>>)]
    ELSE [c EXCEPT !.pc = "wait"]

\* runPythonScript(tempFile, [], cwd || tempDir, timeout, env), up to spawn
tempRun(r, spawnOk) ==
    /\ call[r].pc = "run"
    /\ exec' = [exec EXCEPT ![r] =
                  withEnv(runScript("runPythonScript", call[r].tempFile, call[r].cwd,
                                    call[r].timeout, spawnOk),
                          call[r].args.env)]
    /\ call' = [call EXCEPT ![r] = Thrown(@, exec'[r])]
    /\ UNCHANGED <<fs, clock, policyVars, pathVars, freq>>

\* fs.unlink: removes the file if it is there, fails if it is not
unlink(files, p) == IF existsSync(p) THEN FsRemove(files, p) ELSE files

\* finally { await fs.unlink(tempFile) }, its failure swallowed; then the
\* function returns its result or throws on, and the handler answers
tempUnlink(r) ==
    /\ \/ call[r].pc = "unlink"
       \/ call[r].pc = "wait" /\ exec[r].outcome = "resolved"
    /\ call[r].tempFile # NoPath
    /\ fs' = unlink(fs, call[r].tempFile)
    /\ call' = [call EXCEPT ![r] =
                  Answered(@, IF call[r].pc = "unlink" THEN call[r].payload
                              ELSE IF call[r].tool = "check_python_syntax"
                                  THEN resultPayload(syntaxVerdict(exec[r].value, exec[r].script,
                                                                   orNull(call[r].args.script_path)))
                              ELSE resultPayload(exec[r].value))]
    /\ UNCHANGED <<clock, policyVars, pathVars, freq, exec>>

\* a run function called by the handler: it threw, or its promise is awaited
Awaited(tool, args, x) ==
    IF x.outcome = "threw"
    THEN Answered([IdleCall EXCEPT !.tool = tool, !.args = args], errorPayload(<<x.threw>>))
    ELSE [IdleCall EXCEPT !.tool = tool, !.args = args, !.pc = "wait"]

\* case "run_python_script"
run_python_script(r, script_path, cwd, timeout_ms, env, spawnOk) ==
    /\ CallSlot(r)
    /\ exec' = [exec EXCEPT ![r] =
                  withEnv(runScript("runPythonScript", script_path, orNull(cwd),
                                    orDefault(timeout_ms, PYTHON_TIMEOUT), spawnOk),
                          env)]
    /\ call' = [call EXCEPT ![r] =
                  Awaited("run_python_script",
                          [NoArgs EXCEPT !.script_path = script_path, !.timeout_ms = timeout_ms,
                                         !.cwd = cwd, !.env = env],
                          exec'[r])]
    /\ UNCHANGED <<fs, clock, policyVars, pathVars, freq>>

\* case "run_powershell"
run_powershell(r, command, timeout_ms, cwd, spawnOk) ==
    /\ CallSlot(r)
    /\ exec' = [exec EXCEPT ![r] =
                  runCommand(command, orDefault(timeout_ms, POWERSHELL_TIMEOUT),
                             orNull(cwd), spawnOk)]
    /\ call' = [call EXCEPT ![r] =
                  Awaited("run_powershell",
                          [NoArgs EXCEPT !.command = command, !.timeout_ms = timeout_ms,
                                         !.cwd = cwd],
                          exec'[r])]
    /\ UNCHANGED <<fs, clock, policyVars, pathVars, freq>>

\* case "run_powershell_script"
run_powershell_script(r, script_path, timeout_ms, cwd, spawnOk) ==
    /\ CallSlot(r)
    /\ exec' = [exec EXCEPT ![r] =
                  runScript("runPowerShellScript", script_path, orNull(cwd),
                            orDefault(timeout_ms, POWERSHELL_TIMEOUT), spawnOk)]
    /\ call' = [call EXCEPT ![r] =
                  Awaited("run_powershell_script",
                          [NoArgs EXCEPT !.script_path = script_path, !.timeout_ms = timeout_ms,
                                         !.cwd = cwd],
                          exec'[r])]
    /\ UNCHANGED <<fs, clock, policyVars, pathVars, freq>>

\* the promise of the run function is resolved: the handler answers
handlerReturn(r) ==
    /\ call[r].pc = "wait"
    /\ call[r].tempFile = NoPath
    /\ exec[r].outcome = "resolved"
    /\ call' = [call EXCEPT ![r] = Answered(@, resultPayload(exec[r].value))]
    /\ UNCHANGED <<fs, clock, policyVars, pathVars, freq, exec>>

\* default: throw new Error(`Unknown tool: ${name}`)
unknown_tool(r, name) ==
    /\ CallSlot(r)
    /\ call' = [call EXCEPT ![r] =
                  Answered([IdleCall EXCEPT !.tool = name], errorPayload(<<"Unknown tool", name>>))]
    /\ UNCHANGED <<fs, clock, policyVars, pathVars, freq, exec>>

ScriptPaths ==
    { <<"C", ":", "/", "s">>, <<"C", ":", "/", "n", "o">>, <<"/", "e", "t", "c", "/", "s">> }

CwdValues == { NoPath, <<"/", "e", "t", "c">> }

Commands == { <<>>, <<" ">>, <<"l", "s">>, <<"e", "v", "a", "l", "(", "x", ")">> }

TimeoutValues == { 500, 5000, 700000 }

SpawnErrors == { "spawn ENOENT", "spawn EACCES" }

InitExec ==
    /\ platform \in {"posix", "win32"}
    /\ envDrives = Unset
    /\ envPaths = Unset
    /\ vpArg = <<>>
    /\ vpRet = NoRet
    /\ clock = 0
    /\ freq = [r \in FReqs |-> IdleReq]
    /\ exec = [r \in XReqs |-> IdleExec]
    /\ call = [r \in XReqs |-> IdleCall]
    /\ fs = FsPut(<<>>, normalize(<<"C", ":", "/", "s">>), <<"x">>)

NextExec ==
    \/ \E r \in XReqs, p \in ScriptPaths, c \in CwdValues, t \in TimeoutValues, ok \in BOOLEAN :
          runPythonScript(r, p, c, t, ok)
    \/ \E r \in XReqs, p \in ScriptPaths, c \in CwdValues, t \in TimeoutValues, ok \in BOOLEAN :
          runPowerShellScript(r, p, t, c, ok)
    \/ \E r \in XReqs, m \in Commands, c \in CwdValues, t \in TimeoutValues, ok \in BOOLEAN :
          runPowerShell(r, m, t, c, ok)
    \/ \E r \in XReqs, s \in {"stdout", "stderr"} : onData(r, s)
    \/ \E r \in XReqs, obeys \in BOOLEAN : timeoutHandler(r, obeys)
    \/ \E r \in XReqs, code \in {0, 1}, held \in BOOLEAN : childExits(r, code, held)
    \/ \E r \in XReqs, held \in BOOLEAN : childDies(r, held)
    \/ \E r \in XReqs : onClose(r)
    \/ \E r \in XReqs : onCloseLate(r)
    \/ \E r \in XReqs, m \in SpawnErrors : onError(r, m)
    \/ Tick

SpecExec == InitExec /\ [][NextExec]_vars

\* node's event loop runs a timer that is due, emits 'error' for a failed
\* spawn on the next tick and 'close' for a child that has ended and whose
\* streams have closed; a child that obeys the termination signal ends
ExecFairness ==
    \A r \in XReqs :
        /\ WF_vars(\E obeys \in BOOLEAN : timeoutHandler(r, obeys))
        /\ WF_vars(\E held \in BOOLEAN : childDies(r, held))
        /\ WF_vars(onClose(r))
        /\ WF_vars(\E m \in SpawnErrors : onError(r, m))

SpecExecFair == SpecExec /\ ExecFairness

(***************************************************************************)
(* The specification of the request handler                                *)
(***************************************************************************)
\* the calls of the handler under study: one at a time
TReqs == {1}

CodeTexts ==
    { <<>>,
      <<" ">>,
      <<"p", "r", "i", "n", "t", "(", "1", ")">>,
      <<"x", "e", "v", "a", "l", "(", "x", ")">>,
      <<"o", "p", "e", "n", "(", "f", ")">>,
      <<"o", "s", ".", "r", "e", "m", "o", "v", "e", "(", "f", ")">>,
      <<"e", "v", "a", "l", " ", "(", "x", ")">>,
      <<"e", "v", "a", "l", "(", "o", "s", ".", "s", "y", "s", "t", "e", "m", "(", "c", ")", ")">>,
      <<"o", "p", "e", "n", "(", "f", ",", "'", "w", "'", ")">> }

\* args.timeout_ms: left out, zero, negative, under the floor and over both
\* ceilings
TimeoutArgs == { <<>>, <<0>>, <<-5>>, <<500>>, <<700000>> }

\* args.cwd: left out, outside the allowed locations, inside them
CwdArgs == { <<>>, <<"/", "e", "t", "c">>, <<"C", ":", "/", "d">> }

ScriptArgs == { <<>> } \cup ScriptPaths

UnknownTools == { "format_disk", "" }

InitTool ==
    /\ platform \in {"posix", "win32"}
    /\ envDrives \in {Unset, <<"D">>}
    /\ envPaths = Unset
    /\ vpArg = <<>>
    /\ vpRet = NoRet
    /\ clock = 0
    /\ freq = [r \in FReqs |-> IdleReq]
    /\ exec = [r \in TReqs |-> IdleExec]
    /\ call = [r \in TReqs |-> IdleCall]
    /\ fs = FsPut(<<>>, normalize(<<"C", ":", "/", "s">>), <<"x">>)

\* the events of the child of slot r
ChildEvents(r) ==
    \/ \E s \in {"stdout", "stderr"} : onData(r, s)
    \/ \E obeys \in BOOLEAN : timeoutHandler(r, obeys)
    \/ \E code \in {0, 1}, held \in BOOLEAN : childExits(r, code, held)
    \/ \E held \in BOOLEAN : childDies(r, held)
    \/ onClose(r)
    \/ onCloseLate(r)
    \/ \E m \in SpawnErrors : onError(r, m)

NextTool ==
    \/ \E r \in TReqs, c \in CodeTexts, t \in TimeoutArgs, d \in CwdArgs :
          run_python_code(r, c, t, d, <<>>)
    \/ \E r \in TReqs, c \in CodeTexts, p \in ScriptArgs : check_python_syntax(r, c, p)
    \/ \E r \in TReqs, ok \in BOOLEAN : tempWritten(r, ok)
    \/ \E r \in TReqs, ok \in BOOLEAN : tempRun(r, ok)
    \/ \E r \in TReqs : tempUnlink(r)
    \/ \E r \in TReqs, p \in ScriptArgs, d \in CwdArgs, t \in TimeoutArgs, ok \in BOOLEAN :
          run_python_script(r, p, d, t, <<>>, ok)
    \/ \E r \in TReqs, m \in Commands, t \in TimeoutArgs, d \in CwdArgs, ok \in BOOLEAN :
          run_powershell(r, m, t, d, ok)
    \/ \E r \in TReqs, p \in ScriptArgs, d \in CwdArgs, t \in TimeoutArgs, ok \in BOOLEAN :
          run_powershell_script(r, p, t, d, ok)
    \/ \E r \in TReqs : handlerReturn(r)
    \/ \E r \in TReqs, n \in UnknownTools : unknown_tool(r, n)
    \/ \E r \in TReqs : ChildEvents(r)

SpecTool == InitTool /\ [][NextTool]_vars

(***************************************************************************)
(* searchFiles                                                             *)
(***************************************************************************)
\* the segments of a path
Segs(p) == FilterNonEmpty(Split(p, IF platform = "win32" THEN WinSeps ELSE {"/"}))

\* a pattern of literal segments and * segments matches a file, segment by segment
GlobMatch(pat, file) ==
    /\ Len(pat) = Len(file)
    /\ \A i \in DOMAIN pat : pat[i] = <<"*">> \/ pat[i] = file[i]

\* glob(searchPath, { windowsPathsNoEscape: true }): the files that match
glob(searchPath) == { f \in DOMAIN fs : GlobMatch(Segs(searchPath), Segs(f)) }

\* searchFiles after validatePath(directory) gave v
searchFilesIn(v, pattern) ==
    IF ~v.ok THEN errorPayload(<<v.error>>)
    ELSE resultPayload([success |-> TRUE, pattern |-> pattern, directory |-> v.path,
                        results |-> glob(join(v.path, pattern))])

\* case "search_files": searchFiles(args.directory, args.pattern); the glob
\* and the stat of each file read the disk and change nothing
search_files(r, directory, pattern) ==
    /\ CallSlot(r)
    /\ call' = [call EXCEPT ![r] =
                  Answered([IdleCall EXCEPT
                               !.tool = "search_files",
                               !.args = [NoArgs EXCEPT !.directory = directory,
                                                       !.pattern = pattern]],
                           searchFilesIn(validatePath(directory), pattern))]
    /\ UNCHANGED <<fs, clock, policyVars, pathVars, freq, exec>>

SearchDirectories ==
    { <<"C", ":", "/", "d">>,
      <<"C", ":", "/", "d", "/">>,
      <<"C", ":", "/">>,
      <<"C", ":", "/", "d", "/", "e">>,
      <<"D", ":", "/">>,
      <<"/", "e", "t", "c">>,
      <<"/", "t", "m", "p", "/">>,
      <<"/", "h", "o", "m", "e", "/", "u">> }

SearchPatterns ==
    { <<"*">>,
      <<"a">>,
      <<".", ".", "/", "*">>,
      <<".", ".", "/", "a">>,
      <<"e", "/", ".", ".", "/", "*">>,
      <<"*", "/", "a">>,
      <<".", ".", "/", ".", ".", "/", "*">>,
      <<"e", "/", "*">> }

SearchFiles ==
    { <<"C", ":", "/", "a">>,
      <<"C", ":", "/", "d", "/", "a">>,
      <<"C", ":", "/", "d", "/", "e", "/", "a">>,
      <<"/", "t", "m", "p", "/", "a">>,
      <<"/", "e", "t", "c", "/", "a">> }

RECURSIVE FsOf(_)
\* the file system that holds the files of a set, each with the content x
FsOf(files) ==
    IF files = {} THEN <<>>
    ELSE LET f == CHOOSE f \in files : TRUE IN FsPut(FsOf(files \ {f}), normalize(f), <<"x">>)

InitSearch ==
    /\ platform \in {"posix", "win32"}
    /\ envDrives \in {Unset, <<"D">>}
    /\ envPaths = Unset
    /\ vpArg = <<>>
    /\ vpRet = NoRet
    /\ clock = 0
    /\ freq = [r \in FReqs |-> IdleReq]
    /\ exec = [r \in TReqs |-> IdleExec]
    /\ call = [r \in TReqs |-> IdleCall]
    /\ fs = FsOf(SearchFiles)

NextSearch ==
    \E r \in TReqs, d \in SearchDirectories, p \in SearchPatterns : search_files(r, d, p)

SpecSearch == InitSearch /\ [][NextSearch]_vars

(***************************************************************************)
(* Two calls at once that stage a temporary file                           *)
(***************************************************************************)
\* two calls: the least number that can be served at the same time
TempReqs == {1, 2}

S_print == <<"p", "r", "i", "n", "t", "(", "1", ")">>

InitTemp ==
    /\ platform \in {"posix", "win32"}
    /\ envDrives = Unset
    /\ envPaths = Unset
    /\ vpArg = <<>>
    /\ vpRet = NoRet
    /\ clock = 0
    /\ freq = [r \in FReqs |-> IdleReq]
    /\ exec = [r \in TempReqs |-> IdleExec]
    /\ call = [r \in TempReqs |-> IdleCall]
    /\ fs = <<>>

NextTemp ==
    \/ \E r \in TempReqs, d \in {<<>>, <<"/", "e", "t", "c">>} : run_python_code(r, S_print, <<>>, d, <<>>)
    \/ \E r \in TempReqs : check_python_syntax(r, S_print, <<>>)
    \/ \E r \in TempReqs, ok \in BOOLEAN : tempWritten(r, ok)
    \/ \E r \in TempReqs, ok \in BOOLEAN : tempRun(r, ok)
    \/ \E r \in TempReqs : tempUnlink(r)
    \/ \E r \in TempReqs : ChildEvents(r)
    \/ Tick

SpecTemp == InitTemp /\ [][NextTemp]_vars

(***************************************************************************)
(* The safety check, called more than once                                 *)
(***************************************************************************)
InitSafety ==
    /\ platform \in {"posix", "win32"}
    /\ envDrives = Unset
    /\ envPaths = Unset
    /\ vpArg = <<>>
    /\ vpRet = NoRet
    /\ clock = 0
    /\ freq = [r \in FReqs |-> IdleReq]
    /\ exec = [r \in TempReqs |-> IdleExec]
    /\ call = [r \in TempReqs |-> IdleCall]
    /\ fs = <<>>

NextSafety ==
    \E r \in TempReqs, c \in CodeTexts : run_python_code(r, c, <<>>, <<>>, <<>>)

SpecSafety == InitSafety /\ [][NextSafety]_vars

(***************************************************************************)
(* Two executions at once                                                  *)
(***************************************************************************)
InitPair ==
    /\ platform = "win32"
    /\ envDrives = Unset
    /\ envPaths = Unset
    /\ vpArg = <<>>
    /\ vpRet = NoRet
    /\ clock = 0
    /\ freq = [r \in FReqs |-> IdleReq]
    /\ exec = [r \in TempReqs |-> IdleExec]
    /\ call = [r \in TempReqs |-> IdleCall]
    /\ fs = FsPut(<<>>, normalize(<<"C", ":", "/", "s">>), <<"x">>)

NextPair ==
    \/ \E r \in TempReqs, ok \in BOOLEAN :
          runPythonScript(r, <<"C", ":", "/", "s">>, NoPath, 500, ok)
    \/ \E r \in TempReqs, ok \in BOOLEAN :
          runPowerShell(r, <<"l", "s">>, 700000, NoPath, ok)
    \/ \E r \in TempReqs : ChildEvents(r)

SpecPair == InitPair /\ [][NextPair]_vars

(***************************************************************************)
(* Python executions with an env argument                                  *)
(***************************************************************************)
\* args.env || {}: left out, or a few pairs
EnvArgs ==
    { <<>>, [PATH |-> "request"], [X |-> "request"], [PYTHONUNBUFFERED |-> "0"],
      [PYTHONDONTWRITEBYTECODE |-> "", X |-> "request"] }

InitEnv ==
    /\ platform \in {"posix", "win32"}
    /\ envDrives = Unset
    /\ envPaths = Unset
    /\ vpArg = <<>>
    /\ vpRet = NoRet
    /\ clock = 0
    /\ freq = [r \in FReqs |-> IdleReq]
    /\ exec = [r \in TReqs |-> IdleExec]
    /\ call = [r \in TReqs |-> IdleCall]
    /\ fs = FsPut(<<>>, normalize(<<"C", ":", "/", "s">>), <<"x">>)

NextEnv ==
    \/ \E r \in TReqs, e \in EnvArgs, ok \in BOOLEAN :
          run_python_script(r, <<"C", ":", "/", "s">>, <<>>, <<>>, e, ok)
    \/ \E r \in TReqs, e \in EnvArgs : run_python_code(r, S_print, <<>>, <<>>, e)
    \/ \E r \in TReqs : check_python_syntax(r, S_print, <<>>)
    \/ \E r \in TReqs, ok \in BOOLEAN : tempWritten(r, ok)
    \/ \E r \in TReqs, ok \in BOOLEAN : tempRun(r, ok)
    \/ \E r \in TReqs : tempUnlink(r)
    \/ \E r \in TReqs : handlerReturn(r)
    \/ \E r \in TReqs : ChildEvents(r)

SpecEnv == InitEnv /\ [][NextEnv]_vars

(***************************************************************************)
(* Two syntax checks at once                                               *)
(***************************************************************************)
S_unclosed == <<"p", "r", "i", "n", "t", "(", "1">>

\* the script a check can name
CheckedScript == <<"C", ":", "/", "s">>

InitSyntax ==
    /\ platform = "win32"
    /\ envDrives = Unset
    /\ envPaths = Unset
    /\ vpArg = <<>>
    /\ vpRet = NoRet
    /\ clock = 0
    /\ freq = [r \in FReqs |-> IdleReq]
    /\ exec = [r \in TempReqs |-> IdleExec]
    /\ call = [r \in TempReqs |-> IdleCall]
    /\ fs = FsPut(<<>>, normalize(CheckedScript), S_unclosed)

NextSyntax ==
    \/ \E r \in TempReqs, c \in {S_print, S_unclosed} : check_python_syntax(r, c, <<>>)
    \/ \E r \in TempReqs : check_python_syntax(r, <<>>, CheckedScript)
    \/ \E r \in TempReqs, ok \in BOOLEAN : tempWritten(r, ok)
    \/ \E r \in TempReqs, ok \in BOOLEAN : tempRun(r, ok)
    \/ \E r \in TempReqs : tempUnlink(r)
    \/ \E r \in TempReqs : ChildEvents(r)

SpecSyntax == InitSyntax /\ [][NextSyntax]_vars

(***************************************************************************)
(* File operations that read: listDirectory, readFile, getFileInfo, and    *)
(* createDirectory; one action per await                                   *)
(***************************************************************************)
\* what the file system holds at the path of a directory made by fs.mkdir
Dir == <<"<dir>">>

\* the paths fs.readdir(p) gives once joined to p: what lies directly in p
entries(p) == { q \in DOMAIN fs : q # p /\ dirname(q) = p }

\* p is a directory: one that was made, or one that holds something
isDirectory(p) == (existsSync(p) /\ fs[p] = Dir) \/ entries(p) # {}

\* an operation up to its first await: validatePath, then the call awaited
Begun(op, v, pc) ==
    IF ~v.ok THEN [IdleReq EXCEPT !.op = op, !.pc = "failed", !.error = v.error]
    ELSE [IdleReq EXCEPT !.op = op, !.pc = pc, !.validated = v.path]

listDirectory(r, dirPath) ==
    /\ NextSlot(r)
    /\ freq' = [freq EXCEPT ![r] = Begun("list", validatePath(dirPath), "readdir")]
    /\ UNCHANGED <<fs, clock, policyVars, pathVars, exec, call>>

\* await fs.readdir(validated, { withFileTypes: true }): each entry with the
\* type its Dirent carries
readdir(r) ==
    /\ freq[r].pc = "readdir"
    /\ freq' = [freq EXCEPT ![r] =
                  IF isDirectory(freq[r].validated)
                  THEN [@ EXCEPT !.pc = "stats",
                                 !.found = { [path |-> q,
                                              type |-> IF isDirectory(q) THEN "directory"
                                                       ELSE "file"] :
                                             q \in entries(freq[r].validated) }]
                  ELSE [@ EXCEPT !.pc = "failed", !.error = "ENOENT scandir"]]
    /\ UNCHANGED <<fs, clock, policyVars, pathVars, exec, call>>

\* the paths among ps whose fs.stat rejects: the ones that are gone by now,
\* and the ones the system denies
statRejects(ps, denied) == { q \in ps : q \in denied \/ ~existsSync(q) }

\* the item of listDirectory for an entry: the catch around its stat gives
\* the item with the error in the place of the size and the dates
listItem(e, rejected) ==
    IF rejected THEN [path |-> e.path, type |-> e.type, error |-> "Could not read stats"]
    ELSE [path |-> e.path, type |-> e.type, size |-> Len(fs[e.path])]

listStatsThrows(r, denied) ==
    /\ freq[r].pc = "stats"
    /\ LET bad == statRejects({ e.path : e \in freq[r].found }, denied) IN
       freq' = [freq EXCEPT ![r] =
                  IF bad # {}
                  THEN [@ EXCEPT !.pc = "failed", !.unreadable = bad, !.error = "ENOENT stat"]
                  ELSE [@ EXCEPT
                          !.pc = "done",
                          !.result =
                              [kind |-> "list", success |-> TRUE, path |-> freq[r].validated,
                               items |-> { listItem(e, FALSE) : e \in freq[r].found },
                               count |-> Cardinality(freq[r].found)]]]
    /\ UNCHANGED <<fs, clock, policyVars, pathVars, exec, call>>

\* await Promise.all(entries.map(fs.stat(path.join(validated, entry.name)))),
\* then the result with items.length as its count
listStats(r, denied) ==
    /\ freq[r].pc = "stats"
    /\ LET bad == statRejects({ e.path : e \in freq[r].found }, denied)
           items == { listItem(e, e.path \in bad) : e \in freq[r].found }
       IN  freq' = [freq EXCEPT
                      ![r].pc = "done",
                      ![r].unreadable = bad,
                      ![r].result =
                          [kind |-> "list", success |-> TRUE, path |-> freq[r].validated,
                           items |-> items, count |-> Cardinality(items)]]
    /\ UNCHANGED <<fs, clock, policyVars, pathVars, exec, call>>

\* searchFiles up to its first await: validatePath, then glob is awaited
searchFiles(r, directory, pattern) ==
    /\ NextSlot(r)
    /\ freq' = [freq EXCEPT ![r] =
                  [Begun("search", validatePath(directory), "glob") EXCEPT
                      !.pattern = pattern]]
    /\ UNCHANGED <<fs, clock, policyVars, pathVars, exec, call>>

\* await glob(path.join(validated, pattern), { windowsPathsNoEscape: true })
globFiles(r) ==
    /\ freq[r].pc = "glob"
    /\ freq' = [freq EXCEPT
                  ![r].pc = "searchStats",
                  ![r].found = { [path |-> q] :
                                 q \in glob(join(freq[r].validated, freq[r].pattern)) }]
    /\ UNCHANGED <<fs, clock, policyVars, pathVars, exec, call>>

\* the item of searchFiles for a file that matched
searchItem(e, rejected) ==
    IF rejected THEN [path |-> e.path, error |-> "Could not read stats"]
    ELSE [path |-> e.path, size |-> Len(fs[e.path])]

\* await Promise.all(files.map(fs.stat(file))), then the result with
\* results.length as its count
searchStats(r, denied) ==
    /\ freq[r].pc = "searchStats"
    /\ LET bad == statRejects({ e.path : e \in freq[r].found }, denied)
           results == { searchItem(e, e.path \in bad) : e \in freq[r].found }
       IN  freq' = [freq EXCEPT
                      ![r].pc = "done",
                      ![r].unreadable = bad,
                      ![r].result =
                          [kind |-> "search", success |-> TRUE,
                           pattern |-> freq[r].pattern, directory |-> freq[r].validated,
                           results |-> results, count |-> Cardinality(results)]]
    /\ UNCHANGED <<fs, clock, policyVars, pathVars, exec, call>>

readFile(r, filePath) ==
    /\ NextSlot(r)
    /\ freq' = [freq EXCEPT ![r] = Begun("read", validatePath(filePath), "readFile")]
    /\ UNCHANGED <<fs, clock, policyVars, pathVars, exec, call>>

readFileReadCreates(r) ==
    /\ freq[r].pc = "readFile"
    /\ fs' = IF existsSync(freq[r].validated) THEN fs ELSE FsPut(fs, freq[r].validated, <<>>)
    /\ freq' = [freq EXCEPT ![r] =
                  IF isDirectory(freq[r].validated)
                      THEN [@ EXCEPT !.pc = "failed", !.error = "EISDIR read"]
                  ELSE [@ EXCEPT !.pc = "readStat", !.content = fs'[freq[r].validated]]]
    /\ UNCHANGED <<clock, policyVars, pathVars, exec, call>>

\* await fs.readFile(validated, encoding)
readFileRead(r) ==
    /\ freq[r].pc = "readFile"
    /\ freq' = [freq EXCEPT ![r] =
                  IF ~existsSync(freq[r].validated)
                      THEN [@ EXCEPT !.pc = "failed", !.error = "ENOENT open"]
                  ELSE IF isDirectory(freq[r].validated)
                      THEN [@ EXCEPT !.pc = "failed", !.error = "EISDIR read"]
                  ELSE [@ EXCEPT !.pc = "readStat", !.content = fs[freq[r].validated]]]
    /\ UNCHANGED <<fs, clock, policyVars, pathVars, exec, call>>

getFileInfoRaw(r, filePath) ==
    /\ NextSlot(r)
    /\ freq' = [freq EXCEPT ![r] =
                  Begun("info", [ok |-> TRUE, path |-> filePath, error |-> ""], "infoStat")]
    /\ UNCHANGED <<fs, clock, policyVars, pathVars, exec, call>>

getFileInfo(r, filePath) ==
    /\ NextSlot(r)
    /\ freq' = [freq EXCEPT ![r] = Begun("info", validatePath(filePath), "infoStat")]
    /\ UNCHANGED <<fs, clock, policyVars, pathVars, exec, call>>

\* await fs.stat(validated), of readFile and of getFileInfo, and the result
stat(r) ==
    /\ freq[r].pc \in {"readStat", "infoStat"}
    /\ freq' = [freq EXCEPT ![r] =
                  IF ~(existsSync(freq[r].validated) \/ isDirectory(freq[r].validated))
                      THEN [@ EXCEPT !.pc = "failed", !.error = "ENOENT stat"]
                  ELSE [@ EXCEPT !.pc = "done",
                           !.result = [kind |-> freq[r].op, success |-> TRUE,
                                       path |-> freq[r].validated,
                                       type |-> IF isDirectory(freq[r].validated)
                                                THEN "directory" ELSE "file"]]]
    /\ UNCHANGED <<fs, clock, policyVars, pathVars, exec, call>>

createDirectory(r, dirPath) ==
    /\ NextSlot(r)
    /\ freq' = [freq EXCEPT ![r] = Begun("mkdir", validatePath(dirPath), "mkdir")]
    /\ UNCHANGED <<fs, clock, policyVars, pathVars, exec, call>>

\* await fs.mkdir(validated, { recursive: true }): makes the directory, leaves
\* one that is there, fails on a file
mkdir(r) ==
    /\ freq[r].pc = "mkdir"
    /\ LET p == freq[r].validated IN
       IF existsSync(p) /\ ~isDirectory(p)
       THEN /\ fs' = fs
            /\ freq' = [freq EXCEPT ![r].pc = "failed", ![r].error = "EEXIST mkdir"]
       ELSE /\ fs' = IF isDirectory(p) THEN fs ELSE FsPut(fs, p, Dir)
            /\ freq' = [freq EXCEPT
                          ![r].pc = "done",
                          ![r].result = [kind |-> "mkdir", success |-> TRUE, path |-> p]]
    /\ UNCHANGED <<clock, policyVars, pathVars, exec, call>>

(***************************************************************************)
(* Every operation that takes a path, one request of each kind at a time   *)
(***************************************************************************)
GuardReqs == {1}

GuardPaths ==
    { <<"C", ":", "/", "d">>,
      <<"C", ":", "/", "d", "/", "a">>,
      <<"C", ":", "/", "d", "/", ".", ".", "/", "d", "/", "a">>,
      <<"C", ":", "/", "n">>,
      <<"/", "e", "t", "c", "/", "a">>,
      <<"/", "h", "o", "m", "e", "/", ".", ".", "/", "e", "t", "c", "/", "a">> }

GuardFiles == { <<"C", ":", "/", "d", "/", "a">>, <<"C", ":", "/", "s">> }

InitGuard ==
    /\ platform \in {"posix", "win32"}
    /\ envDrives \in {Unset, <<"D">>}
    /\ envPaths = Unset
    /\ vpArg = <<>>
    /\ vpRet = NoRet
    /\ clock = 0
    /\ freq = [r \in FReqs |-> IdleReq]
    /\ exec = [r \in TReqs |-> IdleExec]
    /\ call = [r \in TReqs |-> IdleCall]
    /\ fs = FsOf(GuardFiles)

NextGuard ==
    \/ \E r \in GuardReqs, p \in GuardPaths : listDirectory(r, p)
    \/ \E r \in GuardReqs : readdir(r)
    \/ \E r \in GuardReqs : listStats(r, {})
    \/ \E r \in GuardReqs, p \in GuardPaths : readFile(r, p)
    \/ \E r \in GuardReqs : readFileRead(r)
    \/ \E r \in GuardReqs, p \in GuardPaths : getFileInfo(r, p)
    \/ \E r \in GuardReqs : stat(r)
    \/ \E r \in GuardReqs, p \in GuardPaths : createDirectory(r, p)
    \/ \E r \in GuardReqs : mkdir(r)
    \/ \E r \in GuardReqs, p \in GuardPaths, b \in BOOLEAN : writeFile(r, p, ContentOf(r), b)
    \/ \E r \in GuardReqs, p \in GuardPaths, b \in BOOLEAN : deleteFile(r, p, b)
    \/ \E r \in GuardReqs : copyFile(r)
    \/ \E r \in GuardReqs : writeFileWrite(r)
    \/ \E r \in GuardReqs : writeFileReturn(r)
    \/ \E r \in GuardReqs : deleteFileUnlink(r)
    \/ \E r \in GuardReqs : deleteFileReturn(r)
    \/ \E r \in TReqs, d \in GuardPaths, p \in {<<"*">>, <<".", ".", "/", "*">>} :
          search_files(r, d, p)
    \/ \E r \in TReqs, p \in ScriptArgs, d \in CwdArgs, ok \in BOOLEAN :
          run_python_script(r, p, d, <<>>, <<>>, ok)
    \/ \E r \in TReqs, p \in ScriptArgs, d \in CwdArgs, ok \in BOOLEAN :
          run_powershell_script(r, p, <<>>, d, ok)
    \/ \E r \in TReqs, d \in CwdArgs, ok \in BOOLEAN :
          run_powershell(r, <<"l", "s">>, <<>>, d, ok)
    \/ \E r \in TReqs, p \in ScriptArgs : check_python_syntax(r, <<>>, p)

SpecGuard == InitGuard /\ [][NextGuard]_vars

(***************************************************************************)
(* Listing and searching a directory while its files are being deleted     *)
(***************************************************************************)
ListDir == <<"C", ":", "/", "d">>

ListFiles == { <<"C", ":", "/", "d", "/", "a">>, <<"C", ":", "/", "d", "/", "b">> }

InitList ==
    /\ platform \in {"posix", "win32"}
    /\ envDrives = Unset
    /\ envPaths = Unset
    /\ vpArg = <<>>
    /\ vpRet = NoRet
    /\ clock = 0
    /\ freq = [r \in FReqs |-> IdleReq]
    /\ exec = [r \in XReqs |-> IdleExec]
    /\ call = [r \in XReqs |-> IdleCall]
    /\ fs = FsOf(ListFiles)

NextList ==
    \/ \E r \in FReqs : listDirectory(r, ListDir)
    \/ \E r \in FReqs : readdir(r)
    \/ \E r \in FReqs, denied \in SUBSET { normalize(f) : f \in ListFiles } :
          listStats(r, denied)
    \/ \E r \in FReqs : searchFiles(r, ListDir, <<"*">>)
    \/ \E r \in FReqs : globFiles(r)
    \/ \E r \in FReqs, denied \in SUBSET { normalize(f) : f \in ListFiles } :
          searchStats(r, denied)
    \/ \E r \in FReqs, f \in ListFiles : deleteFile(r, f, FALSE)
    \/ \E r \in FReqs : deleteFileUnlink(r)
    \/ \E r \in FReqs : deleteFileReturn(r)

SpecList == InitList /\ [][NextList]_vars

(***************************************************************************)
(* The operations that read, and writes and deletes with and without a     *)
(* backup, while scripts run                                               *)
(***************************************************************************)
FramePaths ==
    { <<"C", ":", "/", "d">>,
      <<"C", ":", "/", "d", "/", "a">>,
      <<"C", ":", "/", "n">>,
      <<"/", "e", "t", "c", "/", "a">> }

InitFrame ==
    /\ platform \in {"posix", "win32"}
    /\ envDrives = Unset
    /\ envPaths = Unset
    /\ vpArg \in { <<"C", ":", "/", "d", "/", "a">>, <<"/", "e", "t", "c", "/", "a">> }
    /\ vpRet = NoRet
    /\ clock = 0
    /\ freq = [r \in FReqs |-> IdleReq]
    /\ exec = [r \in TempReqs |-> IdleExec]
    /\ call = [r \in TempReqs |-> IdleCall]
    /\ fs = FsOf(GuardFiles)

NextFrame ==
    \/ \E r \in GuardReqs, p \in FramePaths : listDirectory(r, p)
    \/ \E r \in GuardReqs : readdir(r)
    \/ \E r \in GuardReqs, denied \in SUBSET { normalize(f) : f \in GuardFiles } :
          listStats(r, denied)
    \/ \E r \in GuardReqs, p \in FramePaths : readFile(r, p)
    \/ \E r \in GuardReqs : readFileRead(r)
    \/ \E r \in GuardReqs, p \in FramePaths : getFileInfo(r, p)
    \/ \E r \in GuardReqs : stat(r)
    \/ \E r \in GuardReqs, p \in FramePaths : searchFiles(r, p, <<"*">>)
    \/ \E r \in GuardReqs : globFiles(r)
    \/ \E r \in GuardReqs, denied \in SUBSET { normalize(f) : f \in GuardFiles } :
          searchStats(r, denied)
    \/ \E r \in GuardReqs, p \in FramePaths, b \in BOOLEAN : writeFile(r, p, ContentOf(r), b)
    \/ \E r \in GuardReqs, p \in FramePaths, b \in BOOLEAN : deleteFile(r, p, b)
    \/ \E r \in GuardReqs : copyFile(r)
    \/ \E r \in GuardReqs : writeFileWrite(r)
    \/ \E r \in GuardReqs : writeFileReturn(r)
    \/ \E r \in GuardReqs : deleteFileUnlink(r)
    \/ \E r \in GuardReqs : deleteFileReturn(r)
    \/ \E r \in TempReqs, d \in FramePaths, p \in {<<"*">>, <<".", ".", "/", "*">>} :
          search_files(r, d, p)
    \/ \E r \in TempReqs, ok \in BOOLEAN :
          run_python_script(r, <<"C", ":", "/", "s">>, <<>>, <<>>, <<>>, ok)
    \/ \E r \in TempReqs, s \in {"stdout", "stderr"} : onData(r, s)
    \/ Validate

SpecFrame == InitFrame /\ [][NextFrame]_vars

(***************************************************************************)
(* The specifications of the file operations                               *)
(***************************************************************************)
InitFile ==
    /\ platform \in {"posix", "win32"}
    /\ envDrives = Unset
    /\ envPaths = Unset
    /\ vpArg = <<>>
    /\ vpRet = NoRet
    /\ clock = 0
    /\ freq = [r \in FReqs |-> IdleReq]
    /\ exec = [r \in XReqs |-> IdleExec]
    /\ call = [r \in XReqs |-> IdleCall]
    /\ \E c \in InitialContents \cup {NoFile} :
          fs = IF c = NoFile THEN <<>>
               ELSE FsPut(<<>>, normalize(<<"C", ":", "/", "a">>), c)

NextFile ==
    \/ \E r \in FReqs, p \in FileTargets, b \in BOOLEAN :
          writeFile(r, p, ContentOf(r), b)
    \/ \E r \in FReqs, p \in FileTargets, b \in BOOLEAN : deleteFile(r, p, b)
    \/ \E r \in FReqs : copyFile(r)
    \/ \E r \in FReqs : copyFileError(r)
    \/ \E r \in FReqs : writeFileWrite(r)
    \/ \E r \in FReqs : writeFileReturn(r)
    \/ \E r \in FReqs : deleteFileUnlink(r)
    \/ \E r \in FReqs : deleteFileReturn(r)
    \/ Tick

SpecFile == InitFile /\ [][NextFile]_vars

(***************************************************************************)
(* validatePath on its own                                                 *)
(***************************************************************************)
InitPath ==
    /\ platform \in {"posix", "win32"}
    /\ envDrives \in EnvDriveValues
    /\ envPaths \in EnvPathValues
    /\ vpArg \in RawPaths
    /\ vpRet = NoRet
    /\ fs = <<>>
    /\ clock = 0
    /\ freq = [r \in FReqs |-> IdleReq]
    /\ exec = [r \in XReqs |-> IdleExec]
    /\ call = [r \in XReqs |-> IdleCall]

NextPath == Validate

SpecPath == InitPath /\ [][NextPath]_vars

(***************************************************************************)
(* Claims about validatePath                                               *)
(***************************************************************************)
Letters == {"a", "c", "d", "e", "f", "h", "m", "n", "o", "p", "t", "C", "D", "F"}

\* the volume identifier of a normalized path: its leading drive letter, or
\* the drive letter of its /mnt/<letter>/ mount; <<>> when it has none
VolumeOf(n) ==
    IF Len(n) >= 2 /\ n[1] \in Letters /\ n[2] = ":" THEN ToUpperCase(<<n[1]>>)
    ELSE IF StartsWith(n, S_mnt) /\ Len(n) >= 6 /\ n[6] \in Letters
            /\ (Len(n) = 6 \/ n[7] = "/")
        THEN ToUpperCase(<<n[6]>>)
    ELSE <<>>

PolicyAllows(n) ==
    \/ \E i \in DOMAIN ALLOWED_PATHS : StartsWith(n, ALLOWED_PATHS[i])
    \/ VolumeOf(n) # <<>> /\ Includes(ALLOWED_DRIVES, VolumeOf(n))
    \/ StartsWith(n, S_tmp) \/ StartsWith(n, S_home)

\* C1: validatePath(p) returns the normalized path if and only if the
\* normalized p starts with a configured prefix, has a configured drive as
\* its volume identifier, or lies under /tmp/ or /home/; every other path is
\* rejected with Access denied.
C1_ValidateIffPolicy ==
    vpRet # NoRet =>
        /\ vpRet.path = normalize(vpArg)
        /\ vpRet.ok <=> PolicyAllows(vpRet.path)
        /\ ~vpRet.ok => vpRet.error = AccessDenied

(***************************************************************************)
(* Claims about the backup step of writeFile and deleteFile                *)
(***************************************************************************)
\* b is a backup path of f: f, a tag and a reading of the clock
IsBackupOf(b, f) ==
    \E t \in 0..MaxClock : b \in {writeBackupPath(f, t), deleteBackupPath(f, t)}

\* some backup file of f holds content c
BackupHolds(files, f, c) ==
    \E b \in DOMAIN files : IsBackupOf(b, f) /\ b # f /\ files[b] = c

\* request r returns successfully in this step
Returns(r) == freq[r].pc # "done" /\ freq'[r].pc = "done"

\* r is a backup-enabled request on a file that existed when r began
BacksUpExisting(r) == freq[r].createBackup /\ freq[r].pre # NoFile

\* C2, as stated: after every successful backup-enabled write_file or
\* delete_file on an existing file, a backup file at another path holds the
\* content the file had before the call.
C2_BackupHoldsPriorContent ==
    [][\A r \in FReqs :
          Returns(r) /\ BacksUpExisting(r) => BackupHolds(fs', freq[r].validated, freq[r].pre)]_vars

\* C2, amended: the same, for every call during which no other write_file or
\* delete_file request on the same path is in flight (so in particular for
\* two successive calls).
C2_BackupHoldsPriorContentAlone ==
    [][\A r \in FReqs :
          Returns(r) /\ BacksUpExisting(r) /\ ~freq[r].overlapped
              => /\ BackupHolds(fs', freq[r].validated, freq[r].pre)
                 /\ freq[r].backupPath # freq[r].validated
                 /\ freq[r].backupPath \in DOMAIN fs'
                 /\ fs'[freq[r].backupPath] = freq[r].pre]_vars

\* two successive default write_file calls on an existing file have returned,
\* and a backup holds what the first one wrote
C2_Witness ==
    /\ \A r \in {1, 2} : /\ freq[r].pc = "done" /\ freq[r].op = "write"
                         /\ freq[r].createBackup /\ ~freq[r].overlapped
                         /\ freq[r].pre # NoFile
    /\ freq[2].pre = ContentOf(1)
    /\ BackupHolds(fs, freq[2].validated, ContentOf(1))
    /\ fs[freq[2].validated] = ContentOf(2)

\* r has begun to overwrite or unlink its file
Mutated(r) == freq[r].pc \in {"stat", "unlinked"}

\* the backup copy of r is complete before r's overwrite or unlink begins
CopiedBeforeMutate(r) ==
    BacksUpExisting(r) /\ (freq[r].pc \in {"write", "unlink"} \/ Mutated(r))
        => freq[r].copied /\ freq[r].backupPath \in DOMAIN fs

\* the content the file had when r began is in the file or in r's backup
PriorContentKept(r) ==
    \/ existsSync(freq[r].validated) /\ fs[freq[r].validated] = freq[r].pre
    \/ freq[r].backupPath \in DOMAIN fs /\ fs[freq[r].backupPath] = freq[r].pre

\* C3, as stated: within one backup-enabled write_file or delete_file on an
\* existing file the backup copy is complete before the overwrite or unlink
\* begins, and in no reachable state of the request (so not after a crash at
\* that point either) is the content the file had gone from both the file and
\* the backup path.
C3_PriorContentNeverLost ==
    \A r \in FReqs :
        /\ CopiedBeforeMutate(r)
        /\ BacksUpExisting(r) /\ InFlight(r) => PriorContentKept(r)

\* C3, amended: the same, the second part for every request during which no
\* other write_file or delete_file request on the same path is in flight.
C3_BackupBeforeMutate ==
    \A r \in FReqs :
        /\ CopiedBeforeMutate(r)
        /\ BacksUpExisting(r) /\ InFlight(r) /\ ~freq[r].overlapped => PriorContentKept(r)

\* a write_file has overwritten an existing file and has not yet returned:
\* the old content is in its backup alone
C3_Witness ==
    \E r \in FReqs :
        /\ BacksUpExisting(r) /\ ~freq[r].overlapped /\ Mutated(r)
        /\ freq[r].op = "write"
        /\ fs[freq[r].validated] # freq[r].pre
        /\ fs[freq[r].backupPath] = freq[r].pre

\* C4: on a path that does not exist the backup step of a backup-enabled
\* write_file or delete_file is a no-op: it makes no backup file and raises
\* no error of its own.
C4_BackupNoopOnMissing ==
    \A r \in FReqs :
        freq[r].createBackup /\ freq[r].validated # <<>> /\ freq[r].pre = NoFile
            /\ ~freq[r].overlapped
            => /\ ~freq[r].copied
               /\ freq[r].error \notin {"ENOENT copyfile", "EIO copyfile"}

\* C5: write_file reports backup_created = TRUE exactly when the call made a
\* backup file, and delete_file's backup_path is the backup it made, or null
\* when it made none.
C5_BackupReported ==
    \A r \in FReqs :
        freq[r].pc = "done" =>
            /\ freq[r].op = "write" => (freq[r].result.backup_created <=> freq[r].copied)
            /\ freq[r].op = "delete" =>
                  freq[r].result.backup_path =
                      IF freq[r].copied THEN freq[r].backupPath ELSE NoPath

(***************************************************************************)
(* Claims about the process runner                                         *)
(***************************************************************************)
Delivered(r) == exec[r].outcome = "resolved"

\* the result has the shape of a timeout of ms milliseconds
TimeoutShaped(v, kind, ms) ==
    /\ v.success = FALSE
    /\ v.exit_code = <<-1>>
    /\ v.error = [msg |-> killedText(kind), ms |-> ms]

C7_AlwaysDelivers ==
    /\ [](\A r \in XReqs : Delivered(r) => ~Alive(exec[r]))
    /\ \A r \in XReqs : (exec[r].outcome = "pending") ~> Delivered(r)

\* the result is that of exactly the one event that settled the request
SettledByOne(x) ==
    IF x.spawnFailed
        THEN x.value.error.msg \in SpawnErrors /\ x.value.exit_code = <<-1>>
    ELSE IF x.killed
        THEN TimeoutShaped(x.value, x.kind, x.safeTimeout)
    ELSE x.value.error = NoError /\ x.value.exit_code = x.code

\* C8: one result is delivered for an execution, that of exactly one of
\* normal exit, timeout kill and spawn error, and no later event replaces or
\* alters it.
C8_SingleResolution ==
    [][\A r \in XReqs :
          /\ Delivered(r) => exec'[r].outcome = "resolved" /\ exec'[r].value = exec[r].value
          /\ Delivered(r)' => SettledByOne(exec[r])']_vars

\* the 'close' of a failed spawn has come after its 'error', and the result
\* is still the one the 'error' handler delivered
C8_Witness ==
    \E r \in XReqs :
        /\ exec[r].spawnFailed /\ exec[r].child = "closed" /\ Delivered(r)
        /\ exec[r].value.error.msg \in SpawnErrors

\* C9: a child that ends by itself before its timeout elapses is not sent the
\* termination signal afterwards and is not reported as killed by timeout.
C9_NoKillAfterExit ==
    \A r \in XReqs :
        exec[r].exitedInTime =>
            /\ ~exec[r].termSent
            /\ Delivered(r) => exec[r].value.error.msg # killedText(exec[r].kind)

ResultFields ==
    {"success", "exit_code", "stdout", "stderr", "duration_ms", "error",
     "script_path", "working_directory"}

\* C10: a child that cannot be launched gives a well-formed result with
\* success = false, exit_code = -1 and the error's message; and no outcome
\* of a launched execution makes the run function throw.
C10_SpawnErrorResult ==
    \A r \in XReqs :
        /\ exec[r].child # "none" => exec[r].outcome \in {"pending", "resolved"}
        /\ Delivered(r) => DOMAIN exec[r].value = ResultFields
        /\ exec[r].spawnFailed /\ exec[r].child # "spawnerr" =>
              /\ Delivered(r)
              /\ exec[r].value.success = FALSE
              /\ exec[r].value.exit_code = <<-1>>
              /\ exec[r].value.error.msg \in SpawnErrors
              /\ exec[r].value.duration_ms >= 0

\* the executable of a runPythonScript was not found and the result says so
C10_Witness ==
    \E r \in XReqs :
        /\ exec[r].spawnFailed /\ Delivered(r) /\ exec[r].kind = "runPythonScript"
        /\ exec[r].value.error.msg = "spawn ENOENT"
        /\ exec[r].value.exit_code = <<-1>>

(***************************************************************************)
(* Claims about inline code, temporary files and the request handler       *)
(***************************************************************************)
Slots == DOMAIN call

\* the code matches a blocked pattern
Blocked(code) == \E i \in DOMAIN DANGEROUS_PATTERNS : test(DANGEROUS_PATTERNS[i], code)

\* a file of the scratch directory is on disk
TempFilesOnDisk == { p \in DOMAIN fs : StartsWith(p, tmpdir) }

\* C11: run_python_code on a text that matches a blocked pattern fails with
\* the security-check error that names a pattern the text matches; no
\* temporary file has been written or is on disk, and no process is spawned.
C11_UnsafeCodeRejected ==
    \A r \in Slots :
        call[r].tool = "run_python_code" /\ Blocked(call[r].args.code) =>
            /\ call[r].pc = "done"
            /\ call[r].payload.isError
            /\ call[r].payload.error[1] = "Security check failed"
            /\ \E i \in DOMAIN DANGEROUS_PATTERNS :
                  /\ call[r].payload.error[2] = DANGEROUS_PATTERNS[i].src
                  /\ test(DANGEROUS_PATTERNS[i], call[r].args.code)
            /\ call[r].tempFile = NoPath /\ ~call[r].staged
            /\ TempFilesOnDisk = {}
            /\ exec[r].child = "none"

\* eval(os.system(c)) was refused, for os.system, the first pattern it matches
C11_Witness ==
    \E r \in Slots :
        /\ call[r].tool = "run_python_code"
        /\ call[r].args.code = <<"e", "v", "a", "l", "(", "o", "s", ".", "s", "y", "s", "t", "e", "m", "(", "c", ")", ")">>
        /\ call[r].payload = errorPayload(<<"Security check failed", "/\\bos\\.system\\s*\\(/">>)

\* C12: once a run_python_code or check_python_syntax call that staged a
\* temporary file has returned or thrown, that file is not on disk.
C12_TempFileGone ==
    \A r \in Slots :
        call[r].pc = "done" /\ call[r].staged =>
            ~existsSync(call[r].tempFile)

\* C13: every child is spawned with its standard input disconnected and its
\* stdout and stderr piped to the runner, whatever tool it is spawned for.
C13_StdinDisconnected ==
    \A r \in DOMAIN exec :
        exec[r].child # "none" => exec[r].stdio = <<"ignore", "pipe", "pipe">>

\* the child of a check_python_syntax call runs, its stdin disconnected
C13_Witness ==
    \E r \in Slots :
        /\ call[r].tool = "check_python_syntax"
        /\ exec[r].child = "alive"
        /\ exec[r].stdio[1] = "ignore"

ValidationErrors ==
    { AccessDenied, "Script not found", "Security check failed", "Code cannot be empty",
      "Command cannot be empty", "Either code or script_path must be provided",
      "Provide either code or script_path, not both", "Unknown tool" }

\* C14: a call that fails with a validation error has had no side effect at
\* any point: no temporary file was written and no process was spawned.
C14_ValidationErrorNoSideEffect ==
    \A r \in Slots :
        /\ call[r].pc = "done"
        /\ call[r].payload.isError
        /\ call[r].payload.error[1] \in ValidationErrors
        => ~call[r].staged /\ exec[r].child = "none"

KnownTools ==
    { "run_python_code", "check_python_syntax", "run_python_script", "run_powershell",
      "run_powershell_script" }

\* C16: the handler answers every call with a result payload or with an
\* error payload marked isError that carries the message, what a function
\* throws included; a call of an unknown tool gets the error payload, and
\* nothing is written to disk or spawned for it.
C16_HandlerNeverThrows ==
    \A r \in Slots :
        /\ call[r].pc = "done" =>
              /\ call[r].payload.isError => call[r].payload.error # <<>>
                                            /\ call[r].payload.result = NoResult
              /\ ~call[r].payload.isError => call[r].payload.result # NoResult
        /\ exec[r].outcome = "threw" =>
              call[r].pc \in {"unlink", "done"} /\ call[r].payload.isError
        /\ call[r].pc # "idle" /\ call[r].tool \notin KnownTools =>
              /\ call[r].pc = "done"
              /\ call[r].payload = [isError |-> TRUE, error |-> <<"Unknown tool", call[r].tool>>,
                                    result |-> NoResult]
              /\ exec[r].child = "none" /\ ~call[r].staged
              /\ DOMAIN fs = {normalize(<<"C", ":", "/", "s">>)}

\* the call of format_disk was answered with the error payload
C16_Witness ==
    \E r \in Slots :
        /\ call[r].tool = "format_disk" /\ call[r].pc = "done"
        /\ call[r].payload.isError
        /\ call[r].payload.error = <<"Unknown tool", "format_disk">>

\* the command is spawned as it was given, as the argument of -Command
LaunchedUnmodified(r) ==
    /\ exec[r].child # "none"
    /\ exec[r].args = <<"-NoProfile", "-NonInteractive", "-ExecutionPolicy", "Bypass",
                        "-Command", call[r].args.command>>

BlockedCodeNotLaunched ==
    \A r \in Slots :
        call[r].tool = "run_python_code" /\ Blocked(call[r].args.code) => exec[r].child = "none"

\* C17: every non-empty command of run_powershell, one that matches the
\* blocked Python patterns included, is spawned unmodified as the argument of
\* -Command, while run_python_code spawns nothing for code that matches them.
C17_EveryCommandLaunched ==
    /\ \A r \in Slots :
          call[r].tool = "run_powershell" /\ call[r].args.command # <<>> => LaunchedUnmodified(r)
    /\ BlockedCodeNotLaunched

\* C17, for the commands that have a character other than white space, called
\* with no cwd or one that validatePath allows
C17_NonBlankCommandLaunched ==
    /\ \A r \in Slots :
          /\ call[r].tool = "run_powershell"
          /\ \E i \in DOMAIN call[r].args.command : call[r].args.command[i] \notin WhiteSpace
          /\ call[r].args.cwd = <<>> \/ validatePath(call[r].args.cwd).ok
          => LaunchedUnmodified(r)
    /\ BlockedCodeNotLaunched

\* the command eval(x), which the Python patterns block, runs in powershell
C17_Witness ==
    \E r \in Slots :
        /\ call[r].tool = "run_powershell"
        /\ call[r].args.command = <<"e", "v", "a", "l", "(", "x", ")">>
        /\ Blocked(call[r].args.command)
        /\ exec[r].child = "alive"
        /\ exec[r].args[6] = call[r].args.command

Clamp(t, lo, hi) == IF t < lo THEN lo ELSE IF t > hi THEN hi ELSE t

\* C18: the timer of an execution is armed for min(max(t, 1000), MAX), with t
\* the timeout_ms of the call, or the default of the interpreter when it is
\* left out or zero, and MAX the maximum of the interpreter; it lies in
\* [1000, MAX].
C18_TimeoutClamped ==
    \A r \in Slots :
        /\ call[r].tool \in KnownTools \ {"check_python_syntax"}
        /\ exec[r].timeoutId # "none"
        => LET python == call[r].tool \in {"run_python_code", "run_python_script"}
               MAX == IF python THEN 300000 ELSE 600000
               dflt == IF python THEN 30000 ELSE 60000
               a == call[r].args.timeout_ms
               t == IF a = <<>> \/ a = <<0>> THEN dflt ELSE a[1]
           IN  /\ exec[r].safeTimeout = Clamp(t, 1000, MAX)
               /\ exec[r].safeTimeout >= 1000 /\ exec[r].safeTimeout <= MAX

\* run_powershell with timeout_ms 0 has its timer armed for the default
C18_Witness ==
    \E r \in Slots :
        /\ call[r].tool = "run_powershell" /\ call[r].args.timeout_ms = <<0>>
        /\ exec[r].timeoutId = "armed"
        /\ exec[r].safeTimeout = 60000

Blank(s) == \A i \in DOMAIN s : s[i] \in WhiteSpace

\* the error a malformed call is answered with; <<>> for a call that is not
MalformedError(c) ==
    IF c.tool = "check_python_syntax" /\ c.args.code = <<>> /\ c.args.script_path = <<>>
        THEN <<"Either code or script_path must be provided">>
    ELSE IF c.tool = "check_python_syntax" /\ c.args.code # <<>> /\ c.args.script_path # <<>>
        THEN <<"Provide either code or script_path, not both">>
    ELSE IF c.tool = "run_python_code" /\ Blank(c.args.code)
        THEN <<"Code cannot be empty">>
    ELSE IF c.tool = "run_powershell" /\ Blank(c.args.command)
        THEN <<"Command cannot be empty">>
    ELSE <<>>

\* C20: check_python_syntax with both code and script_path or with neither,
\* and run_python_code and run_powershell with empty or blank text, are
\* answered with their error; no file is written, no path is validated or
\* read and nothing is spawned.
C20_MalformedRejected ==
    \A r \in Slots :
        MalformedError(call[r]) # <<>> =>
            /\ call[r].pc = "done"
            /\ call[r].payload = [isError |-> TRUE, error |-> MalformedError(call[r]),
                                  result |-> NoResult]
            /\ ~call[r].staged /\ call[r].tempFile = NoPath
            /\ TempFilesOnDisk = {}
            /\ exec[r].child = "none" /\ exec[r].outcome \in {"idle", "threw"}

\* check_python_syntax with code and a script_path outside the allowed
\* locations: refused for being both, the path not looked at
C20_Witness ==
    \E r \in Slots :
        /\ call[r].tool = "check_python_syntax"
        /\ call[r].args.code # <<>>
        /\ call[r].args.script_path = <<"/", "e", "t", "c", "/", "s">>
        /\ call[r].payload.error = <<"Provide either code or script_path, not both">>

\* the folders listed in ALLOWED_PATHS
ListedFolders == { f \in { Split(envPaths, {","})[i] : i \in DOMAIN Split(envPaths, {","}) } : f # <<>> }

\* C19: with ALLOWED_DRIVES set to the empty string and folders listed in
\* ALLOWED_PATHS, validatePath allows only the paths under a listed folder
\* and those under /tmp/ and /home/.
C19_EmptyDrivesAllowNone ==
    envDrives = <<>> /\ envPaths # Unset /\ vpRet # NoRet /\ vpRet.ok =>
        \/ StartsWith(vpRet.path, S_home)
        \/ StartsWith(vpRet.path, S_tmp)
        \/ \E f \in ListedFolders : StartsWith(vpRet.path, f)

\* the path lies under the directory
Under(p, dir) ==
    LET sep == IF platform = "win32" THEN "\\" ELSE "/"
    IN  StartsWith(p, IF dir[Len(dir)] = sep THEN dir ELSE dir \o <<sep>>)

\* C15: every path search_files reports lies under the validated directory,
\* whatever the pattern.
C15_SearchWithinRoot ==
    \A r \in Slots :
        call[r].tool = "search_files" /\ call[r].pc = "done" /\ ~call[r].payload.isError =>
            \A f \in call[r].payload.result.results :
                Under(f, call[r].payload.result.directory)

\* the text a syntax check was asked about
CheckedText(c) ==
    IF orNull(c.args.script_path) = NoPath THEN c.args.code ELSE S_unclosed

\* the driver ran to its end in time and its output arrived
DriverRan(x) ==
    /\ x.outcome = "resolved"
    /\ x.exitedInTime
    /\ x.code = <<0>>
    /\ x.value.stdout # <<>>

\* C21: check_python_syntax gives the same verdict for the same code text on
\* every invocation, whatever other requests are in flight: whenever the
\* driver of a check ran to its end, the verdict is what parsing the text of
\* that check gives; and the checked script file keeps its content.
C21_SameVerdict ==
    /\ \A r \in Slots :
          /\ call[r].tool = "check_python_syntax"
          /\ call[r].pc = "done"
          /\ ~call[r].payload.isError
          /\ DriverRan(exec[r])
          => call[r].payload.result.valid = ast_parse(CheckedText(call[r]))
    /\ existsSync(normalize(CheckedScript)) => fs[normalize(CheckedScript)] = S_unclosed

\* C22: no two requests in flight use the same temporary file path.
C22_TempPathsDistinct ==
    \A r, q \in Slots :
        /\ r # q
        /\ call[r].pc \notin {"idle", "done"} /\ call[r].tempFile # NoPath
        /\ call[q].pc \notin {"idle", "done"} /\ call[q].tempFile # NoPath
        => call[r].tempFile # call[q].tempFile

\* b is a backup path of one of the files of the model
IsBackup(b) == \E p \in FileTargets : IsBackupOf(b, normalize(p))

\* C23: distinct write_file / delete_file operations on one path back up to
\* distinct paths, so no step of the core overwrites or removes a backup
\* file that exists.
C23_BackupNeverOverwritten ==
    [][\A b \in DOMAIN fs : IsBackup(b) => b \in DOMAIN fs' /\ fs'[b] = fs[b]]_vars

\* the chunks of a buffer are in the order the child wrote them
ChunksInOrder(buf) == \A i, j \in DOMAIN buf : i < j => buf[i][2] < buf[j][2]

Passes(p) == validatePath(p).ok /\ validatePath(p).path = p

\* a file operation whose path the guard refused
Refused(q) == q.pc = "failed" /\ q.error = AccessDenied

ScriptTools == {"run_python_script", "run_powershell_script"}

\* C25: every path argument of a file or script operation, an explicit cwd
\* included, goes through validatePath before the file system is touched
\* or a process is launched, and what is touched or launched afterwards is
\* the validated, normalized path: an operation on a refused path has
\* touched nothing, and every path in use has passed the guard.
C25_ValidatedBeforeUse ==
    /\ \A r \in FReqs :
          /\ Refused(freq[r]) =>
                /\ freq[r].validated = <<>> /\ freq[r].backupPath = NoPath
                /\ freq[r].pre = NoFile /\ freq[r].result = NoResult
          /\ freq[r].pc # "idle" /\ ~Refused(freq[r]) => Passes(freq[r].validated)
          /\ freq[r].backupPath # NoPath => IsBackupOf(freq[r].backupPath, freq[r].validated)
          /\ freq[r].pc = "done" =>
                /\ freq[r].result.path = freq[r].validated
                /\ freq[r].op = "list" =>
                      \A i \in freq[r].result.items : dirname(i.path) = freq[r].validated
    /\ \A p \in DOMAIN fs :
          \/ \E f \in GuardFiles : p = normalize(f)
          \/ Passes(p)
          \/ \E r \in FReqs : p = freq[r].backupPath
    /\ \A r \in Slots :
          /\ exec[r].child # "none" /\ call[r].tool \in ScriptTools =>
                /\ validatePath(call[r].args.script_path).ok
                /\ exec[r].validated = validatePath(call[r].args.script_path).path
                /\ exec[r].args[Len(exec[r].args)] = exec[r].validated
          /\ exec[r].child # "none" /\ call[r].args.cwd # <<>> =>
                /\ validatePath(call[r].args.cwd).ok
                /\ exec[r].workDir = validatePath(call[r].args.cwd).path
          /\ call[r].tool \in ScriptTools /\ ~validatePath(call[r].args.script_path).ok =>
                exec[r].child = "none" /\ call[r].payload.isError
          /\ call[r].tool = "check_python_syntax" /\ call[r].pc = "write" =>
                /\ validatePath(call[r].args.script_path).ok
                /\ call[r].code = checkCode(fs[validatePath(call[r].args.script_path).path])
          /\ call[r].tool = "search_files" /\ ~call[r].payload.isError =>
                Passes(call[r].payload.result.directory)

\* a file was read through a path with dots in it, and a PowerShell script
\* was launched in a cwd the caller gave: both in their normalized form
C25_Witness ==
    /\ \E r \in FReqs :
          /\ freq[r].op = "read" /\ freq[r].pc = "done"
          /\ freq[r].validated = normalize(<<"C", ":", "/", "d", "/", "a">>)
    /\ \E r \in Slots :
          /\ call[r].tool = "run_powershell_script"
          /\ call[r].args.cwd = <<"C", ":", "/", "d">>
          /\ exec[r].child = "alive"
          /\ exec[r].workDir = normalize(<<"C", ":", "/", "d">>)
          /\ platform = "win32"

\* the patterns a text matches, by their place in the list
Hits(code) == { i \in DOMAIN DANGEROUS_PATTERNS : test(DANGEROUS_PATTERNS[i], code) }

\* a run_python_code call that got as far as the safety check
Checked(c) == c.tool = "run_python_code" /\ Trim(c.args.code) # <<>>

\* the call was refused by the safety check
Unsafe(c) ==
    c.pc = "done" /\ c.payload.isError /\ c.payload.error[1] = "Security check failed"

S_eval_system ==
    <<"e", "v", "a", "l", "(", "o", "s", ".", "s", "y", "s", "t", "e", "m", "(", "c", ")", ")">>

ScriptMissing(c) ==
    /\ c.args.script_path # <<>>
    /\ validatePath(c.args.script_path).ok
    /\ ~existsSync(validatePath(c.args.script_path).path)

\* C27: a script that does not exist is reported before anything is
\* spawned: run_python_script and run_powershell_script on a validated path
\* that is not on disk fail with 'Script not found', check_python_syntax on
\* such a script_path answers with an invalid verdict, and in each case no
\* child was launched and no temporary file was written.
C27_MissingScriptBeforeSpawn ==
    \A r \in Slots :
        /\ call[r].tool \in ScriptTools /\ ScriptMissing(call[r]) =>
              /\ call[r].pc = "done"
              /\ call[r].payload.isError
              /\ call[r].payload.error = <<"Script not found">>
              /\ exec[r].child = "none"
              /\ call[r].tempFile = NoPath /\ TempFilesOnDisk = {}
        /\ call[r].tool = "check_python_syntax" /\ call[r].args.code = <<>>
              /\ ScriptMissing(call[r]) =>
              /\ call[r].pc = "done"
              /\ ~call[r].payload.isError
              /\ ~call[r].payload.result.valid
              /\ call[r].payload.result.message = "Script not found"
              /\ exec[r].child = "none"
              /\ call[r].tempFile = NoPath /\ TempFilesOnDisk = {}

\* run_powershell_script was called on C:/no, which is not on disk, with a
\* cwd the guard refuses: the answer is Script not found
C27_Witness ==
    \E r \in Slots :
        /\ call[r].tool = "run_powershell_script"
        /\ call[r].args.script_path = <<"C", ":", "/", "n", "o">>
        /\ call[r].args.cwd = <<"/", "e", "t", "c">>
        /\ call[r].payload.isError
        /\ call[r].payload.error = <<"Script not found">>

\* what execution r holds is its own: its killed flag is set by its own
\* timer, and its result is made of its own buffers and its own flag
OwnResult(x) ==
    /\ x.killed => x.timeoutId = "fired"
    /\ x.outcome = "resolved" =>
          /\ x.value.stdout = x.stdout /\ x.value.stderr = x.stderr
          /\ x.child = "closed" /\ ~x.spawnFailed =>
                (x.killed <=> TimeoutShaped(x.value, x.kind, x.safeTimeout))

\* C28: executions in flight at the same time are independent: a step of
\* one (its start, a chunk of its output, its timer, its exit, its close)
\* leaves the child, the buffers, the killed flag, the timer and the result
\* of every other one as they are, and each result is made of the
\* execution's own buffers and flag; a second request starts and completes
\* while the first one still awaits its child.
C28_ExecutionsIsolated ==
    [][/\ \A r \in DOMAIN exec :
             exec'[r] # exec[r] => \A q \in DOMAIN exec \ {r} : exec'[q] = exec[q]
       /\ \A r \in DOMAIN exec : OwnResult(exec'[r])]_vars

\* the Python child of one request still runs, its timer armed and nothing
\* written, while a PowerShell command that started after it has written a
\* chunk, ended and delivered its result
C28_Witness ==
    \E r, q \in DOMAIN exec :
        /\ r # q
        /\ exec[r].kind = "runPythonScript" /\ exec[r].outcome = "pending"
        /\ exec[r].child = "alive" /\ exec[r].timeoutId = "armed"
        /\ exec[r].stdout = <<>> /\ exec[r].stderr = <<>>
        /\ exec[q].kind = "runPowerShell" /\ exec[q].outcome = "resolved"
        /\ exec[q].value.success
        /\ exec[q].value.stdout # <<>>

\* the tools that launch a process and take a cwd
CwdTools == ScriptTools \cup {"run_powershell", "run_python_code"}

\* C29: with cwd left out the child runs in the directory of the script
\* (script tools), in the home directory (run_powershell) or in the temp
\* directory (inline Python); a cwd that is given goes through validatePath
\* and the child runs in what it returns; a cwd the guard refuses means no
\* process is launched.
C29_WorkingDirectory ==
    \A r \in Slots :
        /\ exec[r].child # "none" /\ call[r].args.cwd = <<>> =>
              /\ call[r].tool \in ScriptTools => exec[r].workDir = dirname(exec[r].validated)
              /\ call[r].tool = "run_powershell" => exec[r].workDir = homedir
              /\ call[r].tool = "run_python_code" => exec[r].workDir = tmpdir
        /\ exec[r].child # "none" /\ call[r].args.cwd # <<>> =>
              /\ validatePath(call[r].args.cwd).ok
              /\ exec[r].workDir = validatePath(call[r].args.cwd).path
        /\ call[r].tool \in CwdTools /\ call[r].args.cwd # <<>>
              /\ ~validatePath(call[r].args.cwd).ok =>
              /\ exec[r].child = "none"
              /\ call[r].pc = "done" => call[r].payload.isError

\* inline Python called without cwd runs in the temp directory
C29_Witness ==
    \E r \in Slots :
        /\ call[r].tool = "run_python_code"
        /\ call[r].args.cwd = <<>>
        /\ exec[r].child = "alive"
        /\ exec[r].workDir = tmpdir
        /\ exec[r].validated = call[r].tempFile

Tuning == {"PYTHONUNBUFFERED", "PYTHONDONTWRITEBYTECODE"}

\* C30: the environment of every Python child is the ambient environment
\* with the pairs of the request over it, the request winning on a name
\* both have, and PYTHONUNBUFFERED=1 and PYTHONDONTWRITEBYTECODE=1 are in
\* it whatever the request supplies.
C30_ChildEnvironment ==
    \A r \in Slots :
        exec[r].kind = "runPythonScript" /\ exec[r].child # "none" =>
            /\ \A k \in DOMAIN call[r].args.env \ Tuning :
                  exec[r].env[k] = call[r].args.env[k]
            /\ \A k \in DOMAIN processEnv \ (DOMAIN call[r].args.env \cup Tuning) :
                  exec[r].env[k] = processEnv[k]
            /\ \A k \in Tuning : exec[r].env[k] = "1"

(***************************************************************************)
(* Claims about the entries of a listing and of a search                   *)
(***************************************************************************)
\* the items of the result of a listing or of a search
ItemsOf(q) == IF q.op = "list" THEN q.result.items ELSE q.result.results

\* an item with the error marker and without a size
Marked(i) == "error" \in DOMAIN i /\ i.error = "Could not read stats" /\ "size" \notin DOMAIN i

\* an item with its size and without the error marker
Normal(i) == "size" \in DOMAIN i /\ "error" \notin DOMAIN i

\* C31: list_directory and search_files never fail because the metadata of
\* one entry cannot be read: that entry is returned with the error marker in
\* the place of its size, every other entry is returned normally, and count
\* is the number of entries found.
C31_EntryStatTolerated ==
    \A r \in FReqs :
        freq[r].op \in {"list", "search"} =>
            /\ freq[r].pc = "failed" =>
                  freq[r].unreadable = {} /\ freq[r].error \in {AccessDenied, "ENOENT scandir"}
            /\ freq[r].pc = "done" =>
                  /\ freq[r].result.success
                  /\ freq[r].result.count = Cardinality(freq[r].found)
                  /\ { i.path : i \in ItemsOf(freq[r]) } = { e.path : e \in freq[r].found }
                  /\ \A i \in ItemsOf(freq[r]) :
                        IF i.path \in freq[r].unreadable THEN Marked(i) ELSE Normal(i)

\* a listing and a search each found two entries and could read only one
C31_Witness ==
    \E r, q \in FReqs :
        /\ freq[r].op = "list" /\ freq[r].pc = "done"
        /\ freq[q].op = "search" /\ freq[q].pc = "done"
        /\ \A x \in {r, q} :
              /\ freq[x].result.count = 2
              /\ Cardinality(freq[x].unreadable) = 1
              /\ \E i \in ItemsOf(freq[x]) : Normal(i)

(***************************************************************************)
(* Claims about where the temporary file is staged                         *)
(***************************************************************************)
\* C32: under every access policy and wherever os.tmpdir() lies, the
\* temporary file of Safe inline code or of a syntax check is in a location
\* validatePath always permits, and Safe inline code run without a cwd
\* reaches the launch of its process: it never ends in Access denied.
C32_TempFilePermitted ==
    \A r \in Slots :
        /\ call[r].tempFile # NoPath => validatePath(call[r].tempFile).ok
        /\ /\ call[r].tool = "run_python_code"
           /\ call[r].args.cwd = <<>>
           /\ call[r].pc = "done"
           /\ call[r].payload.isError
           => call[r].payload.error[1] # AccessDenied

(***************************************************************************)
(* Claims about the two timers of runPythonScript                          *)
(***************************************************************************)
\* the child of x was ended by the termination signal of a timer
EndedByTimer(x) == x.termSent /\ x.code = NullCode /\ x.child \in {"exited", "exitedHeld", "closed"}

CopyErrors == {"ENOENT copyfile", "EIO copyfile"}

\* the backup copy of q has failed
CopyFailed(q) == q.pc = "failed" /\ q.error \in CopyErrors

\* the file of q is as it was when q began
AsItWas(files, q) ==
    IF q.pre = NoFile THEN q.validated \notin DOMAIN files
    ELSE q.validated \in DOMAIN files /\ files[q.validated] = q.pre

\* C34: when the backup copy of a backup-enabled write_file or delete_file
\* fails, the operation fails and leaves the original file as it was: the
\* step of the failure changes no file, the operation makes no step after
\* it, so it neither overwrites nor deletes, and a file no other request
\* touched meanwhile is the one the operation found.
C34_FailedBackupLeavesOriginal ==
    [][\A r \in FReqs :
          /\ freq[r].pc = "copy" /\ freq'[r].pc # "copy" /\ ~freq'[r].copied =>
                /\ CopyFailed(freq'[r])
                /\ freq'[r].result = NoResult
                /\ fs' = fs
                /\ ~freq[r].overlapped => AsItWas(fs', freq'[r])
          /\ CopyFailed(freq[r]) => freq'[r] = freq[r]]_vars

\* the backup copies of a write_file and of a delete_file on the same file
\* have both failed, and the file still holds what it held
C34_Witness ==
    \E r, q \in FReqs :
        /\ freq[r].op = "write" /\ freq[q].op = "delete"
        /\ \A x \in {r, q} :
              /\ freq[x].createBackup /\ freq[x].pc = "failed"
              /\ freq[x].error = "EIO copyfile"
              /\ freq[x].validated \in DOMAIN fs
              /\ fs[freq[x].validated] = <<"o", "l", "d">>
              /\ freq[x].pre = <<"o", "l", "d">>
        /\ \A b \in DOMAIN fs : ~IsBackup(b)

(***************************************************************************)
(* Claims about what the operations leave alone                            *)
(***************************************************************************)
ReadOps == {"list", "read", "info", "search"}

\* the file system, the access policy and the executions are as they were
NothingTouched == fs' = fs /\ policyVars' = policyVars /\ exec' = exec

\* the files a step has created
Created == DOMAIN fs' \ DOMAIN fs

\* C35: list_directory, read_file, search_files, get_file_info and
\* validatePath leave the file system, the access policy and every
\* execution in flight unchanged, whether they succeed or fail; write_file
\* and delete_file with create_backup = false create no file but the
\* target of the write.
C35_ReadOnlyFrame ==
    [][/\ \A r \in FReqs :
             freq'[r] # freq[r] /\ freq'[r].op \in ReadOps => NothingTouched
       /\ \A c \in Slots :
             call'[c] # call[c] /\ call'[c].tool = "search_files" => NothingTouched
       /\ vpRet' # vpRet => NothingTouched
       /\ \A r \in FReqs :
             freq'[r] # freq[r] /\ ~freq'[r].createBackup =>
                 /\ freq'[r].op = "write" => Created \subseteq {freq'[r].validated}
                 /\ freq'[r].op = "delete" => Created = {}]_vars

\* a read_file of a file that is not there has failed, a search has been
\* answered and a path validated while a script runs and has written
\* output, and the files are the ones there were
C35_Witness ==
    /\ \E r \in FReqs :
          /\ freq[r].op = "read" /\ freq[r].pc = "failed" /\ freq[r].error = "ENOENT open"
    /\ \E c \in Slots : call[c].tool = "search_files" /\ call[c].pc = "done"
    /\ \E c \in Slots : exec[c].child = "alive" /\ exec[c].chunks > 0
    /\ vpRet.ok
    /\ fs = FsOf(GuardFiles)
====
